---- MODULE Spec2Model ----
(***************************************************************************)
(* Model of soundcraft/core/ai_agent.py: the protocol runner AIAgent.      *)
(* One run of AIAgent.start() over a Protocol, against a presentation      *)
(* bridge (ConsoleBridge or a scripted one) and the importable operations. *)
(*                                                                         *)
(* Python strings are sequences of one-character strings; Python values    *)
(* are tagged records; a dict is a function from its keys to its values.   *)
(***************************************************************************)
EXTENDS Integers, Sequences, FiniteSets, TLC

VARIABLES
    library,    \* the directory given to load_protocols and the loop over it:
                \* [files, todo, protocols, loaded]
    source,     \* the protocol file given to load_protocol_file: [stem, data]
    protocol,   \* self.protocol: the Protocol the agent runs
    ui,         \* self.ui: "console" (ConsoleBridge) or "scripted" (a bridge passed in)
    values,     \* self.values
    pc,         \* position: of load_protocols: "dir", "loading", "dir_returned";
                \* "file" (not loaded yet), "load_raised"; then of
                \* start(): "new", "running", "returned", "raised"
    idx,        \* the loop index of start(): the 1-based step being run next
    result,     \* what start() returned to its caller
    errors,     \* the exceptions start() raised to its caller
    ran,        \* history: the step indexes _run_step was called with, in order
    log         \* history: the calls made on the bridge and on operations, in order

vars == <<library, source, protocol, ui, values, pc, idx, result, errors, ran, log>>

----------------------------------------------------------------------------
(* Bounds of the model *)

MaxSteps == 3

----------------------------------------------------------------------------
(* Python values *)

PyNone == [t |-> "none"]
PyStr(s) == [t |-> "str", s |-> s]
PyInt(n) == [t |-> "int", n |-> n]
PyBool(b) == [t |-> "bool", b |-> b]
PyDict(d) == [t |-> "dict", d |-> d]
PyList(l) == [t |-> "list", l |-> l]

\* The empty dict {}.
EmptyDict == << >>

\* Mutant of Put: the dict is left with the one key written.
Put_Replace(d, k, v) == [x \in {k} |-> v]

\* Mutant of Put: a key the dict has keeps its value.
Put_KeepFirst(d, k, v) == [x \in (DOMAIN d) \cup {k} |-> IF x \in DOMAIN d THEN d[x] ELSE v]

\* d[k] = v on a dict.
Put(d, k, v) == [x \in (DOMAIN d) \cup {k} |-> IF x = k THEN v ELSE d[x]]

\* bool(v): Python truthiness, as `not step.ref`, `step.call`, `x or y` use it.
Truthy(v) ==
    CASE v.t = "none" -> FALSE
      [] v.t = "str"  -> v.s # << >>
      [] v.t = "int"  -> v.n # 0
      [] v.t = "bool" -> v.b
      [] v.t = "dict" -> DOMAIN v.d # {}
      [] v.t = "list" -> v.l # << >>

\* Mutant of IsEmpty: "" counts as a value.
IsEmpty_NoneOnly(v) == v = PyNone

\* `value in (None, "")`.
IsEmpty(v) == v = PyNone \/ v = PyStr(<< >>)

\* The decimal digits of a natural number, as str(int) writes them.
RECURSIVE Digits(_)
Digits(n) ==
    LET d == <<"0", "1", "2", "3", "4", "5", "6", "7", "8", "9">>[(n % 10) + 1]
    IN  IF n < 10 THEN <<d>> ELSE Digits(n \div 10) \o <<d>>

\* str(n) for an integer.
IntStr(n) == IF n < 0 THEN <<"-">> \o Digits(0 - n) ELSE Digits(n)

\* The keys of a dict in the order the dict lists them.
KeySeq(d) ==
    CHOOSE f \in [1..Cardinality(DOMAIN d) -> DOMAIN d] :
        \A i, j \in 1..Cardinality(DOMAIN d) : i # j => f[i] # f[j]

\* sep.join(parts)
RECURSIVE Join(_, _)
Join(parts, sep) ==
    IF parts = << >> THEN << >>
    ELSE IF Len(parts) = 1 THEN parts[1]
    ELSE parts[1] \o sep \o Join(Tail(parts), sep)

\* repr(v), as str() of a dict or list writes its items.
RECURSIVE Repr(_)
Repr(v) ==
    CASE v.t = "none" -> <<"N", "o", "n", "e">>
      [] v.t = "str"  -> <<"'">> \o v.s \o <<"'">>
      [] v.t = "int"  -> IntStr(v.n)
      [] v.t = "bool" -> IF v.b THEN <<"T", "r", "u", "e">> ELSE <<"F", "a", "l", "s", "e">>
      [] v.t = "dict" ->
            LET ks == KeySeq(v.d)
            IN  <<"{">> \o Join([i \in 1..Len(ks) |->
                                   <<"'">> \o ks[i] \o <<"'", ":", " ">> \o Repr(v.d[ks[i]])],
                                <<",", " ">>) \o <<"}">>
      [] v.t = "list" ->
            <<"[">> \o Join([i \in 1..Len(v.l) |-> Repr(v.l[i])], <<",", " ">>) \o <<"]">>

\* str(v)
StrOf(v) == IF v.t = "str" THEN v.s ELSE Repr(v)

\* str.lower() on the ASCII letters.
UpperCase == <<"A", "B", "C", "D", "E", "F", "G", "H", "I", "J", "K", "L", "M",
               "N", "O", "P", "Q", "R", "S", "T", "U", "V", "W", "X", "Y", "Z">>
LowerCase == <<"a", "b", "c", "d", "e", "f", "g", "h", "i", "j", "k", "l", "m",
               "n", "o", "p", "q", "r", "s", "t", "u", "v", "w", "x", "y", "z">>
LowerChar(c) ==
    IF \E i \in DOMAIN UpperCase : UpperCase[i] = c
    THEN LowerCase[CHOOSE i \in DOMAIN UpperCase : UpperCase[i] = c]
    ELSE c
Lower(s) == [i \in 1..Len(s) |-> LowerChar(s[i])]

\* str.strip(): surrounding whitespace removed.
Whitespace == {" ", "\t", "\n", "\r", "\f"}
Strip(s) ==
    IF \A i \in 1..Len(s) : s[i] \in Whitespace THEN << >>
    ELSE LET first == CHOOSE i \in 1..Len(s) :
                          s[i] \notin Whitespace /\ \A k \in 1..(i - 1) : s[k] \in Whitespace
             last  == CHOOSE i \in 1..Len(s) :
                          s[i] \notin Whitespace /\ \A k \in (i + 1)..Len(s) : s[k] \in Whitespace
         IN  SubSeq(s, first, last)

----------------------------------------------------------------------------
(* Placeholder substitution: _VAR_PATTERN and AIAgent._resolve_args *)

\* Where a match of \$\{([^}]+)\} that starts at position i ends (the index of
\* its closing brace), or 0 when the pattern does not match at i.
VarPatternEnd(s, i) ==
    IF /\ i + 3 <= Len(s)
       /\ s[i] = "$"
       /\ s[i + 1] = "{"
       /\ s[i + 2] # "}"
       /\ \E j \in (i + 3)..Len(s) : s[j] = "}"
    THEN CHOOSE j \in (i + 3)..Len(s) : s[j] = "}" /\ \A k \in (i + 3)..(j - 1) : s[k] # "}"
    ELSE 0

\* Mutant of SubFrom: the text put in place of a placeholder is read again
\* for placeholders.
RECURSIVE SubFrom_Rescan(_, _, _)
SubFrom_Rescan(s, i, vals) ==
    IF i > Len(s) THEN << >>
    ELSE LET j == VarPatternEnd(s, i)
         IN  IF j = 0 THEN <<s[i]>> \o SubFrom_Rescan(s, i + 1, vals)
             ELSE LET name == SubSeq(s, i + 2, j - 1)
                  IN  IF name \in DOMAIN vals
                      THEN SubFrom_Rescan(StrOf(vals[name]) \o SubSeq(s, j + 1, Len(s)), 1, vals)
                      ELSE SubFrom_Rescan(s, j + 1, vals)

\* Mutant of SubFrom: a placeholder whose name is not a key is left as it is.
RECURSIVE SubFrom_KeepUnknown(_, _, _)
SubFrom_KeepUnknown(s, i, vals) ==
    IF i > Len(s) THEN << >>
    ELSE LET j == VarPatternEnd(s, i)
         IN  IF j = 0 THEN <<s[i]>> \o SubFrom_KeepUnknown(s, i + 1, vals)
             ELSE LET name == SubSeq(s, i + 2, j - 1)
                  IN  (IF name \in DOMAIN vals THEN StrOf(vals[name]) ELSE SubSeq(s, i, j))
                          \o SubFrom_KeepUnknown(s, j + 1, vals)

\* _VAR_PATTERN.sub(lambda m: str(vals.get(m.group(1), "")), s), from position i on.
RECURSIVE SubFrom(_, _, _)
SubFrom(s, i, vals) ==
    IF i > Len(s) THEN << >>
    ELSE LET j == VarPatternEnd(s, i)
         IN  IF j = 0 THEN <<s[i]>> \o SubFrom(s, i + 1, vals)
             ELSE LET name == SubSeq(s, i + 2, j - 1)
                  IN  (IF name \in DOMAIN vals THEN StrOf(vals[name]) ELSE << >>)
                          \o SubFrom(s, j + 1, vals)

\* Mutant of Resolve: only the strings at the top of the args are resolved.
Resolve_Shallow(value, vals) ==
    IF value.t = "str" THEN PyStr(SubFrom(value.s, 1, vals)) ELSE value

\* Mutant of Resolve: a string that is one placeholder becomes the value itself.
RECURSIVE Resolve_Typed(_, _)
Resolve_Typed(value, vals) ==
    CASE value.t = "str"  ->
            IF /\ VarPatternEnd(value.s, 1) = Len(value.s)
               /\ SubSeq(value.s, 3, Len(value.s) - 1) \in DOMAIN vals
            THEN vals[SubSeq(value.s, 3, Len(value.s) - 1)]
            ELSE PyStr(SubFrom(value.s, 1, vals))
      [] value.t = "dict" -> PyDict([k \in DOMAIN value.d |-> Resolve_Typed(value.d[k], vals)])
      [] value.t = "list" -> PyList([i \in 1..Len(value.l) |-> Resolve_Typed(value.l[i], vals)])
      [] OTHER -> value

\* resolve(value) of _resolve_args.
RECURSIVE Resolve(_, _)
Resolve(value, vals) ==
    CASE value.t = "str"  -> PyStr(SubFrom(value.s, 1, vals))
      [] value.t = "dict" -> PyDict([k \in DOMAIN value.d |-> Resolve(value.d[k], vals)])
      [] value.t = "list" -> PyList([i \in 1..Len(value.l) |-> Resolve(value.l[i], vals)])
      [] OTHER -> value

ResolveArgs(args, vals) == [key \in DOMAIN args |-> Resolve(args[key], vals)]

----------------------------------------------------------------------------
(* The importable operations: what importlib.import_module, hasattr, callable *)
(* and the call fn with the args find.                                              *)

\* The modules import_module can load, each with its attributes.
Modules ==
    [m \in {<<"m">>} |->
        [a \in {<<"f">>, <<"c">>} |-> [callable |-> a = <<"f">>]]]

\* The messages an exception raised in an operation's body may carry.
OpMessages == {<<"e", "1">>, <<"e", "2">>}

\* The message of the TypeError Python raises when the args do not fit the
\* operation's parameters (a wrong name, a missing or an extra argument).
BindMessage == <<"u", "n", "e", "x", "p", "e", "c", "t", "e", "d">>

\* What a call fn with the args may do: the args do not fit the parameters
\* (bound is FALSE: a TypeError before the body runs), or the body runs and
\* returns a value or raises.
OpReturns == {PyInt(7), PyDict([k \in {<<"a">>, <<"b">>} |-> IF k = <<"a">> THEN PyInt(1) ELSE PyInt(2)])}
OpBehaviours ==
    {[kind |-> "return", value |-> v, msg |-> << >>, bound |-> TRUE] : v \in OpReturns}
        \cup {[kind |-> k, value |-> PyNone, msg |-> m, bound |-> TRUE] :
                 k \in {"TypeError", "Exception", "BaseException"}, m \in OpMessages}
        \cup {[kind |-> "TypeError", value |-> PyNone, msg |-> BindMessage, bound |-> FALSE]}

----------------------------------------------------------------------------
(* Exceptions and the history of calls *)

\* An exception: its class, which message it carries, and what the message
\* interpolates: the step position (0 when it has none), a name, the cause.
Err(exc, what, step, detail, cause) ==
    [exc |-> exc, what |-> what, step |-> step, detail |-> detail, cause |-> cause]

\* An exception raised by the bridge itself.
BridgeError == Err("BridgeError", "bridge", 0, PyNone, PyNone)

\* No exception.
NoError == Err("", "", 0, PyNone, PyNone)

\* In place of a call's return value when the call raised.
Raised == [t |-> "raised"]

\* One call made while running step `step`: the operation, its target (for
\* an operation call), its argument and what it returned.
Call(op, step, target, arg, ret) ==
    [op |-> op, step |-> step, target |-> target, arg |-> arg, ret |-> ret]

----------------------------------------------------------------------------
(* AIAgent._execute_call *)

\* call_path.rsplit(".", 1): the index of the last ".", 0 when there is none.
LastDot(s) ==
    IF \E i \in 1..Len(s) : s[i] = "."
    THEN CHOOSE i \in 1..Len(s) : s[i] = "." /\ \A k \in (i + 1)..Len(s) : s[k] # "."
    ELSE 0

\* Mutant of IsCallable: every attribute is taken for callable.
IsCallable_Always(mod_path, func_name) == TRUE

\* callable(fn) for fn = getattr(mod, func_name)
IsCallable(mod_path, func_name) == Modules[mod_path][func_name].callable

\* The outcome of _execute_call(step_idx, call_path, args) when the operation,
\* if it is reached, behaves as `beh`: whether fn was invoked, and either the
\* value returned or the exception raised.
ExecuteCall(step_idx, call_path, args, beh) ==
    LET dot       == LastDot(call_path.s)
        mod_path  == SubSeq(call_path.s, 1, dot - 1)
        func_name == SubSeq(call_path.s, dot + 1, Len(call_path.s))
        fail(e)   == [invoked |-> FALSE, raised |-> TRUE, value |-> PyNone, error |-> e]
    IN  IF call_path.t # "str"
        THEN fail(Err("AttributeError", "no_rsplit", 0, call_path, PyNone))
        ELSE IF dot = 0
        THEN fail(Err("ValueError", "invalid_call_target", step_idx, call_path, PyNone))
        ELSE IF mod_path \notin DOMAIN Modules
        THEN fail(Err("ImportError", "failed_to_import", step_idx, PyStr(mod_path),
                      PyStr(<<"N", "o", " ", "m", "o", "d", "u", "l", "e">>)))
        ELSE IF func_name \notin DOMAIN Modules[mod_path]
        THEN fail(Err("AttributeError", "no_attribute", step_idx, call_path, PyNone))
        ELSE IF ~IsCallable(mod_path, func_name)
        THEN fail(Err("TypeError", "not_callable", step_idx, call_path, PyNone))
        ELSE CASE beh.kind = "return" ->
                    [invoked |-> TRUE, raised |-> FALSE, value |-> beh.value,
                     error |-> NoError]
               [] beh.kind = "TypeError" ->
                    [invoked |-> TRUE, raised |-> TRUE, value |-> PyNone,
                     error |-> Err("TypeError", "bad_arguments", step_idx, call_path,
                                   PyStr(beh.msg))]
               [] beh.kind = "Exception" ->
                    [invoked |-> TRUE, raised |-> TRUE, value |-> PyNone,
                     error |-> Err("RuntimeError", "error_in", step_idx, call_path,
                                   PyStr(beh.msg))]
               [] beh.kind = "BaseException" ->
                    [invoked |-> TRUE, raised |-> TRUE, value |-> PyNone,
                     error |-> Err("BaseException", "unwrapped", 0, PyNone, PyStr(beh.msg))]

----------------------------------------------------------------------------
(* The protocols run: Variable, Step, Protocol *)

\* Option(label, value, rationale)
Option(label, value, rationale) == [label |-> label, value |-> value, rationale |-> rationale]

\* Variable(name, type, prompt, required, default, options, validate_regex)
VariableOf(name, type, prompt, required, default, options, validate_regex) ==
    [name |-> name, type |-> type, prompt |-> prompt, required |-> required,
     default |-> default, options |-> options, validate_regex |-> validate_regex]

\* Variable(name=..., required=..., default=..., options=...): the other fields
\* take the defaults of the dataclass.
Variable(name, required, default, options) ==
    VariableOf(name, <<"t", "e", "x", "t">>, << >>, required, default, options, PyNone)

\* Step(kind, ref, text, call, args)
Step(kind, ref, text, call, args) ==
    [kind |-> kind, ref |-> ref, text |-> text, call |-> call, args |-> args]

n_tempo == <<"t", "e", "m", "p", "o">>
n_key   == <<"k", "e", "y">>
n_opt   == <<"o", "p", "t">>
n_blank == <<"b", "l", "a", "n", "k">>

\* The variables the protocols declare, keyed by name as _build_variables keys them.
DeclaredVars ==
    [n \in {n_tempo, n_key, n_opt, n_blank} |->
        CASE n = n_tempo -> Variable(n, TRUE, PyInt(120), << >>)
          [] n = n_key   -> Variable(n, TRUE, PyNone, << >>)
          [] n = n_opt   -> Variable(n, FALSE, PyNone,
                                     <<Option(<<"x">>, PyStr(<<"x">>), << >>)>>)
          [] n = n_blank -> Variable(n, FALSE, PyStr(<< >>), << >>)]

k_say      == PyStr(<<"s", "a", "y">>)
k_ask      == PyStr(<<"a", "s", "k">>)
k_confirm  == PyStr(<<"c", "o", "n", "f", "i", "r", "m">>)
k_call     == PyStr(<<"c", "a", "l", "l">>)
k_invoke   == PyStr(<<"i", "n", "v", "o", "k", "e">>)
k_finalize == PyStr(<<"f", "i", "n", "a", "l", "i", "z", "e">>)

t_hi   == <<"h", "i">>
c_mf   == PyStr(<<"m", ".", "f">>)
r_r    == PyStr(<<"r">>)
a_base == [k \in {<<"b", "a", "s", "e">>} |-> PyStr(<<"$", "{", "t", "e", "m", "p", "o", "}">>)]

\* The steps the protocols are made of.
StepPool ==
    { Step(k_say, PyNone, t_hi, PyNone, EmptyDict),
      Step(k_ask, PyStr(n_tempo), << >>, PyNone, EmptyDict),
      Step(k_ask, PyStr(n_key), << >>, PyNone, EmptyDict),
      Step(k_ask, PyStr(n_opt), << >>, PyNone, EmptyDict),
      Step(k_ask, PyStr(n_blank), << >>, PyNone, EmptyDict),
      Step(k_ask, PyNone, << >>, PyNone, EmptyDict),
      Step(k_ask, PyStr(<<"z", "z">>), << >>, PyNone, EmptyDict),
      Step(k_confirm, PyNone, << >>, PyNone, EmptyDict),
      Step(k_confirm, PyStr(n_tempo), t_hi, PyNone, EmptyDict),
      Step(k_call, PyNone, << >>, c_mf, a_base),
      Step(k_call, r_r, << >>, c_mf, EmptyDict),
      Step(k_call, r_r, << >>, PyNone, EmptyDict),
      Step(k_invoke, r_r, << >>, c_mf, a_base),
      Step(k_finalize, PyNone, << >>, PyNone, EmptyDict) }

\* Protocol(id, title, version, description, variables, steps, metadata)
Protocol(id, title, version, description, variables, steps, metadata) ==
    [id |-> id, title |-> title, version |-> version, description |-> description,
     variables |-> variables, steps |-> steps, metadata |-> metadata]

\* A Protocol built in memory with these variables and steps.
ProtocolOf(variables, steps) ==
    Protocol(<<"p">>, <<"p">>, <<"1", ".", "0">>, << >>, variables, steps, EmptyDict)

\* Every sequence of at most n steps of a pool.
StepSeqs(pool, n) == UNION {[1..k -> pool] : k \in 0..n}

\* The protocols: every sequence of at most MaxSteps steps of the pool.
Protocols == {ProtocolOf(DeclaredVars, s) : s \in StepSeqs(StepPool, MaxSteps)}

\* No directory: load_protocols is not called.
NoLibrary == [files |-> << >>, todo |-> << >>, protocols |-> << >>, loaded |-> << >>]

\* No file: the Protocol was built in memory.
NoSource == [stem |-> << >>, data |-> PyNone]

----------------------------------------------------------------------------
(* The presentation bridge *)

\* ConsoleBridge.ask(var)
ConsoleAsk(var) ==
    IF var.default # PyNone THEN var.default
    ELSE IF var.options # << >> THEN var.options[1].value
    ELSE PyNone

\* What a bridge passed to the agent may answer to ask().
ScriptedAnswers == {PyNone, PyStr(<< >>), PyStr(<<"x">>)}

\* The answers self.ui.ask(var) may return.
AskAnswers(var) == IF ui = "console" THEN {ConsoleAsk(var)} ELSE ScriptedAnswers

\* The booleans self.ui.confirm(message) may return (ConsoleBridge: True).
ConfirmAnswers == IF ui = "console" THEN {TRUE} ELSE BOOLEAN

----------------------------------------------------------------------------
(* AIAgent *)

\* AIAgent.__init__
Init ==
    /\ library = NoLibrary
    /\ source = NoSource
    /\ protocol \in Protocols
    /\ ui \in {"console", "scripted"}
    /\ values = EmptyDict
    /\ pc = "new"
    /\ idx = 0
    /\ result = PyNone
    /\ errors = << >>
    /\ ran = << >>
    /\ log = << >>

\* Mutant of Cleared: start() goes on with the state it finds.
Cleared_Kept(vals) == vals

\* self.values.clear()
Cleared(vals) == EmptyDict

\* start() up to its loop: self.values.clear()
Start ==
    /\ pc = "new"
    /\ values' = Cleared(values)
    /\ idx' = 1
    /\ pc' = "running"
    /\ UNCHANGED <<library, source, protocol, ui, result, errors, ran, log>>

\* The loop of start() has a step left to run.
Running == pc = "running" /\ idx <= Len(protocol.steps)

CurStep == protocol.steps[idx]

\* Mutant of Kind: the kind is compared as it is written.
Kind_AsWritten(step) == IF Truthy(step.kind) THEN step.kind.s ELSE << >>

\* kind = (step.kind or "").lower().strip()
Kind(step) == Strip(Lower(IF Truthy(step.kind) THEN step.kind.s ELSE << >>))

\* Mutant of Raise: the exception is noted and the loop goes on.
Raise_Swallowed(e) ==
    /\ errors' = Append(errors, e)
    /\ idx' = idx + 1
    /\ UNCHANGED <<pc, result>>

\* An exception leaves _run_step and start(): the loop ends where it is.
Raise(e) ==
    /\ pc' = "raised"
    /\ errors' = Append(errors, e)
    /\ UNCHANGED <<idx, result>>

\* Mutant of Continue: the loop steps over the step that follows.
Continue_SkipOne ==
    /\ idx' = idx + 2
    /\ UNCHANGED <<pc, errors, result>>

\* _run_step returns: the loop of start() takes the next step.
Continue ==
    /\ idx' = idx + 1
    /\ UNCHANGED <<pc, errors, result>>

\* Mutant of CallKind: the operation step is dispatched on another tag.
CallKind_Invoke == <<"i", "n", "v", "o", "k", "e">>

\* Mutant of NoteKinds: "note" is no kind of its own.
NoteKinds_SayOnly == {<<"s", "a", "y">>}

\* The kinds _run_step dispatches on.
NoteKinds    == {<<"s", "a", "y">>, <<"n", "o", "t", "e">>}
AskKind      == <<"a", "s", "k">>
ConfirmKind  == <<"c", "o", "n", "f", "i", "r", "m">>
CallKind     == <<"c", "a", "l", "l">>
FinalizeKind == <<"f", "i", "n", "a", "l", "i", "z", "e">>
KnownKinds   == NoteKinds \cup {AskKind, ConfirmKind, CallKind, FinalizeKind}

\* kind in {"say", "note"}: self.ui.note(step.text)
StepSay ==
    /\ Running
    /\ Kind(CurStep) \in NoteKinds
    /\ ran' = Append(ran, idx)
    /\ \/ /\ log' = Append(log, Call("note", idx, PyNone, PyStr(CurStep.text), PyNone))
          /\ Continue
       \/ /\ ui = "scripted"
          /\ log' = Append(log, Call("note", idx, PyNone, PyStr(CurStep.text), Raised))
          /\ Raise(BridgeError)
    /\ UNCHANGED <<library, source, protocol, ui, values>>

\* `step.ref not in self.protocol.variables` is false
Declared(ref) == ref.t = "str" /\ ref.s \in DOMAIN protocol.variables

\* Mutant of AskValue: the default is not substituted for an empty answer.
AskValue_NoDefault(answer, var) == answer

\* value = self.ui.ask(var); if value in (None, ""): value = var.default
AskValue(answer, var) == IF IsEmpty(answer) THEN var.default ELSE answer

\* Mutant of AskFails: the required flag is not enforced.
AskFails_Never(value, var) == FALSE

\* value in (None, "") and var.required
AskFails(value, var) == IsEmpty(value) /\ var.required

\* Mutant of AskStore: the value is stored whether empty or not.
AskStore_Always(vals, var, value) == Put(vals, var.name, value)

\* if value not in (None, ""): self.values[var.name] = value
AskStore(vals, var, value) == IF ~IsEmpty(value) THEN Put(vals, var.name, value) ELSE vals

\* Mutant of AskCheck: the test `not step.ref` is left out.
AskCheck_RefOnly(step, step_idx) ==
    IF ~Declared(step.ref)
    THEN Err("KeyError", "variable_not_defined", 0, step.ref, PyNone)
    ELSE NoError

\* The checks of an ask step before the bridge is asked: the exception
\* raised, or NoError.
AskCheck(step, step_idx) ==
    IF ~Truthy(step.ref)
    THEN Err("ValueError", "ask_missing_ref", step_idx, PyNone, PyNone)
    ELSE IF ~Declared(step.ref)
    THEN Err("KeyError", "variable_not_defined", 0, step.ref, PyNone)
    ELSE NoError

\* kind == "ask"
StepAsk ==
    /\ Running
    /\ Kind(CurStep) = AskKind
    /\ ran' = Append(ran, idx)
    /\ \/ /\ AskCheck(CurStep, idx) # NoError
          /\ Raise(AskCheck(CurStep, idx))
          /\ UNCHANGED <<values, log>>
       \/ /\ AskCheck(CurStep, idx) = NoError
          /\ LET var == protocol.variables[CurStep.ref.s]
                 ask(ret) == Call("ask", idx, PyNone, PyStr(var.name), ret)
             IN  \/ \E answer \in AskAnswers(var) :
                       LET value == AskValue(answer, var)
                       IN  /\ log' = Append(log, ask(answer))
                           /\ IF AskFails(value, var)
                              THEN /\ Raise(Err("ValueError", "requires_a_value", 0,
                                                PyStr(var.name), PyNone))
                                   /\ UNCHANGED values
                              ELSE /\ values' = AskStore(values, var, value)
                                   /\ Continue
                 \/ /\ ui = "scripted"
                    /\ log' = Append(log, ask(Raised))
                    /\ Raise(BridgeError)
                    /\ UNCHANGED values
    /\ UNCHANGED <<library, source, protocol, ui>>

\* message = step.text or "Confirm?"
ConfirmMessage(step) ==
    IF step.text # << >> THEN step.text ELSE <<"C", "o", "n", "f", "i", "r", "m", "?">>

\* Mutant of ConfirmKey: the synthesized key counts steps from 0.
ConfirmKey_ZeroBased(step, step_idx) ==
    IF Truthy(step.ref) THEN step.ref.s
    ELSE <<"c", "o", "n", "f", "i", "r", "m", "_">> \o IntStr(step_idx - 1)

\* key = step.ref or f"confirm_{step_idx}"
ConfirmKey(step, step_idx) ==
    IF Truthy(step.ref) THEN step.ref.s
    ELSE <<"c", "o", "n", "f", "i", "r", "m", "_">> \o IntStr(step_idx)

\* kind == "confirm"
StepConfirm ==
    /\ Running
    /\ Kind(CurStep) = ConfirmKind
    /\ ran' = Append(ran, idx)
    /\ LET confirm(ret) == Call("confirm", idx, PyNone, PyStr(ConfirmMessage(CurStep)), ret)
       IN  \/ \E answer \in ConfirmAnswers :
                 /\ log' = Append(log, confirm(PyBool(answer)))
                 /\ values' = Put(values, ConfirmKey(CurStep, idx), PyBool(answer))
                 /\ Continue
           \/ /\ ui = "scripted"
              /\ log' = Append(log, confirm(Raised))
              /\ Raise(BridgeError)
              /\ UNCHANGED values
    /\ UNCHANGED <<library, source, protocol, ui>>

\* Mutant of CallStore: the result is dropped.
CallStore_Never(vals, step, res) == vals

\* if step.ref: self.values[step.ref] = result
CallStore(vals, step, res) == IF Truthy(step.ref) THEN Put(vals, step.ref.s, res) ELSE vals

\* args = self._resolve_args(step.args or {})
StepArgs(step, vals) == ResolveArgs(step.args, vals)

\* The calls _execute_call(step_idx, call_path, args) adds to the history: the
\* resolver being entered, then the operation itself if it is reached.
CallLog(step_idx, call_path, args, r) ==
    LET ret == IF r.raised THEN Raised ELSE r.value
    IN  <<Call("execute_call", step_idx, call_path, PyDict(args), ret)>>
            \o (IF r.invoked
                THEN <<Call("invoke", step_idx, call_path, PyDict(args), ret)>>
                ELSE << >>)

\* Mutant of ValuesAfterCall: the assignment is made whether or not
\* _execute_call raised, None standing for the result that never came.
ValuesAfterCall_ErrorStored(vals, step, r) ==
    CallStore(vals, step, IF r.raised THEN PyNone ELSE r.value)

\* result = self._execute_call(...); if step.ref: self.values[step.ref] = result
\* The assignment is reached only when _execute_call has returned.
ValuesAfterCall(vals, step, r) ==
    IF r.raised THEN vals ELSE CallStore(vals, step, r.value)

\* Mutant of DocumentAfterResolve: the resolved values are written into the
\* step's own args.
DocumentAfterResolve_InPlace(proto, step_idx, args) ==
    [proto EXCEPT !.steps[step_idx].args = args]

\* The Document once _resolve_args has returned `args` for step step_idx: the
\* comprehensions build new dicts and lists, step.args is only read.
DocumentAfterResolve(proto, step_idx, args) == proto

\* kind == "call"
StepCall ==
    /\ Running
    /\ Kind(CurStep) = CallKind
    /\ ran' = Append(ran, idx)
    /\ \/ /\ ~Truthy(CurStep.call)
          /\ Raise(Err("ValueError", "call_missing_call", idx, PyNone, PyNone))
          /\ UNCHANGED <<protocol, values, log>>
       \/ /\ Truthy(CurStep.call)
          /\ \E beh \in OpBehaviours :
                LET args == StepArgs(CurStep, values)
                    r    == ExecuteCall(idx, CurStep.call, args, beh)
                IN  /\ protocol' = DocumentAfterResolve(protocol, idx, args)
                    /\ log' = log \o CallLog(idx, CurStep.call, args, r)
                    /\ values' = ValuesAfterCall(values, CurStep, r)
                    /\ IF r.raised THEN Raise(r.error) ELSE Continue
    /\ UNCHANGED <<library, source, ui>>

\* Where a mapping handed out is the agent's own dict, not a copy of it.
LiveValues == [t |-> "live"]

\* Mutant of Snapshot: the agent's own dict is handed out.
Snapshot_Live(vals) == LiveValues

\* dict(self.values): a copy of the state as it is now.
Snapshot(vals) == PyDict(vals)

\* kind == "finalize": self.ui.finalize(dict(self.values))
StepFinalize ==
    /\ Running
    /\ Kind(CurStep) = FinalizeKind
    /\ ran' = Append(ran, idx)
    /\ \/ /\ log' = Append(log, Call("finalize", idx, PyNone, Snapshot(values), PyNone))
          /\ Continue
       \/ /\ ui = "scripted"
          /\ log' = Append(log, Call("finalize", idx, PyNone, Snapshot(values), Raised))
          /\ Raise(BridgeError)
    /\ UNCHANGED <<library, source, protocol, ui, values>>

\* Mutant of UnknownKindError: the error shows the kind as it was compared.
UnknownKindError_Normalised(step_idx, step) ==
    Err("ValueError", "unknown_kind", step_idx, PyStr(Kind(step)), PyNone)

\* ValueError(f"[Protocol] Step {step_idx} has unknown kind='{step.kind}'.")
UnknownKindError(step_idx, step) ==
    Err("ValueError", "unknown_kind", step_idx, step.kind, PyNone)

\* No branch of _run_step took the kind.
StepUnknown ==
    /\ Running
    /\ Kind(CurStep) \notin KnownKinds
    /\ ran' = Append(ran, idx)
    /\ Raise(UnknownKindError(idx, CurStep))
    /\ UNCHANGED <<library, source, protocol, ui, values, log>>

\* _run_step(step_idx=idx, step=step)
RunStep ==
    \/ StepSay
    \/ StepAsk
    \/ StepConfirm
    \/ StepCall
    \/ StepFinalize
    \/ StepUnknown

\* The loop of start() is over: return dict(self.values)
Return ==
    /\ pc = "running"
    /\ idx > Len(protocol.steps)
    /\ result' = Snapshot(values)
    /\ pc' = "returned"
    /\ UNCHANGED <<library, source, protocol, ui, values, idx, errors, ran, log>>

Next ==
    \/ Start
    \/ RunStep
    \/ Return

Spec == Init /\ [][Next]_vars

----------------------------------------------------------------------------
(* Properties of a run *)

Last(q) == q[Len(q)]

\* The step indexes 1..n in order.
UpTo(n) == [i \in 1..n |-> i]

\* C1: steps run in document order 1..N with none skipped: the steps run so
\* far are 1..k in order, every call belongs to a step that has run, the calls
\* of step i all come before the calls of step i+1, and a run that has
\* returned has run each of the N steps exactly once.
C1_StepsInOrder ==
    /\ ran = UpTo(Len(ran))
    /\ Len(ran) <= Len(protocol.steps)
    /\ \A i \in 1..Len(log) : log[i].step \in 1..Len(ran)
    /\ \A i, j \in 1..Len(log) : i < j => log[i].step <= log[j].step
    /\ pc = "returned" => ran = UpTo(Len(protocol.steps))

\* A run of three steps has returned, with calls made for each of its steps.
C1_Witness ==
    /\ pc = "returned"
    /\ Len(protocol.steps) = 3
    /\ \A n \in 1..3 : \E i \in 1..Len(log) : log[i].step = n

\* C2 (state part): a run that has failed has raised exactly one error, at the
\* last step it ran; a run that has not failed has raised none; a run that has
\* returned has run every step.
C2_FailedRun ==
    /\ pc = "raised" <=> errors # << >>
    /\ Len(errors) <= 1
    /\ pc = "raised" =>
           /\ ran = UpTo(idx)
           /\ result = PyNone
           /\ \A i \in 1..Len(log) : log[i].step <= idx
    /\ pc = "returned" => Len(ran) = Len(protocol.steps) /\ errors = << >>

\* C2: a run either completes all steps or stops at the first step that
\* fails: once a step has failed nothing more happens (no later step, no
\* retry of the failed one, no further call, no second error, no return).
C2_StopsAtFirstFailure ==
    /\ [] C2_FailedRun
    /\ [][pc = "raised" => UNCHANGED vars]_vars

\* A run has failed at its first step with two steps left to run.
C2_Witness ==
    /\ pc = "raised"
    /\ Len(errors) = 1
    /\ idx = 1
    /\ Len(protocol.steps) = 3

\* An absent or empty value: None or "".
Absent(v) == v = PyNone \/ v = PyStr(<< >>)

\* The latest step run is one whose last call was `op`.
LastCall(op) == log # << >> /\ Last(log).op = op /\ Last(log).step = Len(ran)

\* The Variable an ask call was made with.
AskedVar(e) == protocol.variables[e.arg.s]

\* C3: an ask step whose answer is absent or "" uses the Variable's default:
\* a non-empty default is stored under the Variable's name and the run goes
\* on; with tempo (default 120) and steps [ask tempo, finalize], an absent
\* answer makes finalize receive exactly {tempo: 120}.
C3_DefaultUsed ==
    /\ (LastCall("ask") /\ Absent(Last(log).ret) /\ ~Absent(AskedVar(Last(log)).default)) =>
           /\ pc # "raised"
           /\ idx = Len(ran) + 1
           /\ Last(log).arg.s \in DOMAIN values
           /\ values[Last(log).arg.s] = AskedVar(Last(log)).default
    /\ (/\ Len(protocol.steps) = 2
        /\ protocol.steps[1] = Step(k_ask, PyStr(n_tempo), << >>, PyNone, EmptyDict)
        /\ protocol.steps[2] = Step(k_finalize, PyNone, << >>, PyNone, EmptyDict)
        /\ Len(ran) = 2
        /\ Absent(log[1].ret)) =>
           /\ log[2].op = "finalize"
           /\ log[2].arg = PyDict([k \in {n_tempo} |-> PyInt(120)])

\* The run [ask tempo, finalize] has returned after an absent answer.
C3_Witness ==
    /\ pc = "returned"
    /\ Len(protocol.steps) = 2
    /\ protocol.steps[1] = Step(k_ask, PyStr(n_tempo), << >>, PyNone, EmptyDict)
    /\ protocol.steps[2] = Step(k_finalize, PyNone, << >>, PyNone, EmptyDict)
    /\ log[1].ret = PyNone
    /\ values = [k \in {n_tempo} |-> PyInt(120)]

\* C4: an ask step on a required Variable whose answer and default are both
\* absent or "" fails with the value-required error naming the Variable, and
\* the failing step stores nothing.
C4_RequiredValue ==
    /\ [] ((LastCall("ask") /\ Absent(Last(log).ret)
               /\ AskedVar(Last(log)).required /\ Absent(AskedVar(Last(log)).default)) =>
            /\ pc = "raised"
            /\ errors = <<Err("ValueError", "requires_a_value", 0, Last(log).arg, PyNone)>>)
    /\ [][(errors' # errors /\ Last(errors').what = "requires_a_value") =>
            values' = values]_vars

\* The ask of the required Variable key, as second step, has failed after the
\* first step stored a value.
C4_Witness ==
    /\ pc = "raised"
    /\ idx = 2
    /\ errors = <<Err("ValueError", "requires_a_value", 0, PyStr(n_key), PyNone)>>
    /\ Last(log).ret = PyStr(<< >>)
    /\ DOMAIN values # {}
    /\ n_key \notin DOMAIN values

\* C5: an ask step on a non-required Variable whose answer and default are
\* both absent or "" leaves the state as it was and the run goes on to the
\* next step; no ask step ever sets a key to None or "".
C5_OptionalSkipped ==
    /\ [] ((LastCall("ask") /\ Absent(Last(log).ret)
               /\ ~AskedVar(Last(log)).required /\ Absent(AskedVar(Last(log)).default)) =>
            /\ pc # "raised"
            /\ idx = Len(ran) + 1)
    /\ [][(Len(log') = Len(log) + 1 /\ Last(log').op = "ask") =>
            /\ \A k \in DOMAIN values' :
                   (k \notin DOMAIN values \/ values'[k] # values[k]) => ~Absent(values'[k])
            /\ (/\ Absent(Last(log').ret)
                /\ ~AskedVar(Last(log')).required
                /\ Absent(AskedVar(Last(log')).default)) => values' = values]_vars

\* The ask of the optional Variable blank (default "") got no answer as first
\* step: its name is absent from the state and the run is at its second step.
C5_Witness ==
    /\ pc = "running"
    /\ idx = 2
    /\ LastCall("ask")
    /\ Last(log).arg = PyStr(n_blank)
    /\ Last(log).ret = PyNone
    /\ n_blank \notin DOMAIN values
    /\ Len(protocol.steps) >= 2

\* No call was made while running step i.
NoCallAt(i) == \A j \in 1..Len(log) : log[j].step # i

\* C6: an ask step without a reference fails with its own 'missing ref' error
\* and one whose reference names no declared Variable fails with another
\* error, which names the reference; in both cases the bridge is not asked.
C6_AskRefErrors ==
    \A i \in 1..Len(ran) :
        LET st == protocol.steps[i]
        IN  st.kind = k_ask =>
                /\ Absent(st.ref) =>
                       /\ pc = "raised" /\ idx = i
                       /\ errors = <<Err("ValueError", "ask_missing_ref", i, PyNone, PyNone)>>
                       /\ NoCallAt(i)
                /\ (~Absent(st.ref) /\ st.ref.s \notin DOMAIN protocol.variables) =>
                       /\ pc = "raised" /\ idx = i
                       /\ errors = <<Err("KeyError", "variable_not_defined", 0, st.ref, PyNone)>>
                       /\ NoCallAt(i)

\* An ask without a reference has failed as second step, after a first step
\* that called the bridge.
C6_Witness ==
    /\ pc = "raised"
    /\ idx = 2
    /\ protocol.steps[2].kind = k_ask
    /\ protocol.steps[2].ref = PyNone
    /\ Len(log) = 1

\* An ask of an undeclared Variable has failed.
C6_WitnessUndeclared ==
    /\ pc = "raised"
    /\ errors # << >>
    /\ errors[1].exc = "KeyError"

\* C7: a confirm step records the boolean the bridge returned, under the
\* step's reference if it has one and otherwise under confirm_<1-based step
\* index>, and the run goes on to the next step whether it is true or false.
C7_ConfirmRecorded ==
    /\ \A i \in 1..Len(ran) :
           protocol.steps[i].kind = k_confirm =>
               \E j \in 1..Len(log) : log[j].op = "confirm" /\ log[j].step = i
    /\ (LastCall("confirm") /\ Last(log).ret \in {PyBool(TRUE), PyBool(FALSE)}) =>
           LET i   == Len(ran)
               st  == protocol.steps[i]
               key == IF Absent(st.ref)
                      THEN <<"c", "o", "n", "f", "i", "r", "m", "_">> \o IntStr(i)
                      ELSE st.ref.s
           IN  /\ pc # "raised"
               /\ idx = i + 1
               /\ key \in DOMAIN values
               /\ values[key] = Last(log).ret

\* A confirm without a reference was declined as second step: False is
\* recorded under confirm_2 and the run is at its third step.
C7_Witness ==
    /\ pc = "running"
    /\ idx = 3
    /\ Len(protocol.steps) = 3
    /\ LastCall("confirm")
    /\ protocol.steps[2].ref = PyNone
    /\ <<"c", "o", "n", "f", "i", "r", "m", "_", "2">> \in DOMAIN values
    /\ values[<<"c", "o", "n", "f", "i", "r", "m", "_", "2">>] = PyBool(FALSE)

\* In this step of the run, a step of kind `kind` that names an operation is
\* run as an operation call: _execute_call gets the step's reference and its
\* resolved arguments, and the step does not fail as an unknown kind.
RunAsCall(kind) ==
    (/\ pc = "running"
     /\ idx <= Len(protocol.steps)
     /\ protocol.steps[idx].kind = kind
     /\ ~Absent(protocol.steps[idx].call)) =>
        /\ \E j \in (Len(log) + 1)..Len(log') :
               /\ log'[j].op = "execute_call"
               /\ log'[j].step = idx
               /\ log'[j].target = protocol.steps[idx].call
               /\ log'[j].arg = PyDict(ResolveArgs(protocol.steps[idx].args, values))
        /\ errors' # errors => Last(errors').what # "unknown_kind"

C8_WitnessInvokeRejected ==
    /\ pc = "raised"
    /\ protocol.steps[idx].kind = k_invoke
    /\ errors = <<Err("ValueError", "unknown_kind", idx, k_invoke, PyNone)>>

\* The keys of a value that is a mapping; none for any other value.
MappingKeys(v) == IF v.t = "dict" THEN DOMAIN v.d ELSE {}

\* C9: when the operation of a call step returns, a step with a result
\* reference has the returned value stored under that reference, and a step
\* without one creates no key of its own.
C9_ResultStored ==
    [][(Len(log') > Len(log) /\ Last(log').op = "invoke" /\ Last(log').ret # Raised) =>
           LET st == protocol.steps[idx]
           IN  /\ ~Absent(st.ref) =>
                      /\ st.ref.s \in DOMAIN values'
                      /\ values'[st.ref.s] = Last(log').ret
                      /\ DOMAIN values' \subseteq
                             DOMAIN values \cup {st.ref.s} \cup MappingKeys(Last(log').ret)
               /\ Absent(st.ref) =>
                      DOMAIN values' \subseteq DOMAIN values \cup MappingKeys(Last(log').ret)
           ]_vars

\* A call without a reference and then a call with the reference r have both
\* returned 7: the state holds 7 under r and nothing else.
C9_Witness ==
    /\ pc = "running"
    /\ idx = 3
    /\ LastCall("invoke")
    /\ Absent(protocol.steps[1].ref)
    /\ protocol.steps[1].kind = k_call
    /\ protocol.steps[2].ref = r_r
    /\ log[2].ret = PyInt(7)
    /\ Last(log).ret = PyInt(7)
    /\ values = [k \in {<<"r">>} |-> PyInt(7)]

\* C10 as stated: when the operation of a call step returns a mapping, every
\* entry of the mapping is in the state after the step.
C10_MappingMerged ==
    (LastCall("invoke") /\ Last(log).ret.t = "dict") =>
        \A k \in DOMAIN Last(log).ret.d :
            k \in DOMAIN values /\ values[k] = Last(log).ret.d[k]

----------------------------------------------------------------------------
(* Protocol loading helpers: _build_options, _build_variables, _build_steps, *)
(* load_protocol_file, on the value yaml.safe_load returns                   *)

f_id             == <<"i", "d">>
f_title          == <<"t", "i", "t", "l", "e">>
f_version        == <<"v", "e", "r", "s", "i", "o", "n">>
f_description    == <<"d", "e", "s", "c", "r", "i", "p", "t", "i", "o", "n">>
f_variables      == <<"v", "a", "r", "i", "a", "b", "l", "e", "s">>
f_steps          == <<"s", "t", "e", "p", "s">>
f_name           == <<"n", "a", "m", "e">>
f_type           == <<"t", "y", "p", "e">>
f_prompt         == <<"p", "r", "o", "m", "p", "t">>
f_required       == <<"r", "e", "q", "u", "i", "r", "e", "d">>
f_default        == <<"d", "e", "f", "a", "u", "l", "t">>
f_options        == <<"o", "p", "t", "i", "o", "n", "s">>
f_validate_regex == <<"v", "a", "l", "i", "d", "a", "t", "e", "_", "r", "e", "g", "e", "x">>
f_label          == <<"l", "a", "b", "e", "l">>
f_value          == <<"v", "a", "l", "u", "e">>
f_rationale      == <<"r", "a", "t", "i", "o", "n", "a", "l", "e">>
f_kind           == <<"k", "i", "n", "d">>
f_ref            == <<"r", "e", "f">>
f_text           == <<"t", "e", "x", "t">>
f_call           == <<"c", "a", "l", "l">>
f_args           == <<"a", "r", "g", "s">>

\* d.get(key, default)
Get(d, key, default) == IF key \in DOMAIN d THEN d[key] ELSE default

\* isinstance(v, dict)
IsDict(v) == v.t = "dict"

\* Whether `for x in v` can run: a list, a dict (its keys) or a str (its
\* characters); an int or a bool raises TypeError.
Iterable(v) == v.t \in {"list", "dict", "str"}

\* The values `for x in v` goes through.
Items(v) ==
    CASE v.t = "list" -> v.l
      [] v.t = "dict" -> [i \in 1..Cardinality(DOMAIN v.d) |-> PyStr(KeySeq(v.d)[i])]
      [] v.t = "str"  -> [i \in 1..Len(v.s) |-> PyStr(<<v.s[i]>>)]

\* TypeError: 'int' object is not iterable
NotIterable(v) == Err("TypeError", "not_iterable", 0, v, PyNone)

\* What a helper of the loader hands back: a value, or the exception raised.
Built(value) == [raised |-> FALSE, value |-> value, error |-> NoError]
Failed(e)    == [raised |-> TRUE, value |-> PyNone, error |-> e]

\* Option(label=..., value=..., rationale=...) of _build_options
BuildOption(opt) ==
    LET label == StrOf(Get(opt.d, f_label, Get(opt.d, f_value, PyStr(<< >>))))
    IN  Option(label, Get(opt.d, f_value, PyStr(label)),
               StrOf(Get(opt.d, f_rationale, PyStr(<< >>))))

\* _build_options(raw_opts)
BuildOptions(raw_opts) ==
    IF ~Truthy(raw_opts) THEN Built(<< >>)
    ELSE IF ~Iterable(raw_opts) THEN Failed(NotIterable(raw_opts))
    ELSE LET dicts == SelectSeq(Items(raw_opts), IsDict)
         IN  Built([i \in 1..Len(dicts) |-> BuildOption(dicts[i])])

\* A raw variable entry _build_variables does not skip: a dict with a name.
HasName(raw) == IsDict(raw) /\ Truthy(Get(raw.d, f_name, PyNone))

\* Variable(name=str(name), ...) of _build_variables, its options built.
BuildVariable(raw) ==
    VariableOf(StrOf(raw.d[f_name]),
               StrOf(Get(raw.d, f_type, PyStr(<<"t", "e", "x", "t">>))),
               StrOf(Get(raw.d, f_prompt, PyStr(<< >>))),
               Truthy(Get(raw.d, f_required, PyBool(TRUE))),
               Get(raw.d, f_default, PyNone),
               BuildOptions(Get(raw.d, f_options, PyNone)).value,
               Get(raw.d, f_validate_regex, PyNone))

\* Mutant of KeptEntry: of entries with one name the first is kept.
KeptEntry_First(named, n) ==
    CHOOSE i \in 1..Len(named) :
        /\ StrOf(named[i].d[f_name]) = n
        /\ \A j \in 1..(i - 1) : StrOf(named[j].d[f_name]) # n

\* variables[var.name] = var, in the order of the entries: the index of the
\* entry whose Variable is under n once the loop is over, the last of that name.
KeptEntry(named, n) ==
    CHOOSE i \in 1..Len(named) :
        /\ StrOf(named[i].d[f_name]) = n
        /\ \A j \in (i + 1)..Len(named) : StrOf(named[j].d[f_name]) # n

\* _build_variables(raw_vars): the entries are built in order, the first whose
\* options cannot be built raises; of entries with one name the last is kept.
BuildVariables(raw_vars) ==
    IF ~Truthy(raw_vars) THEN Built(EmptyDict)
    ELSE IF ~Iterable(raw_vars) THEN Failed(NotIterable(raw_vars))
    ELSE LET named  == SelectSeq(Items(raw_vars), HasName)
             opts(i) == BuildOptions(Get(named[i].d, f_options, PyNone))
             bad    == {i \in 1..Len(named) : opts(i).raised}
         IN  IF bad # {}
             THEN Failed(opts(CHOOSE i \in bad : \A j \in bad : i <= j).error)
             ELSE Built([n \in {StrOf(named[i].d[f_name]) : i \in 1..Len(named)} |->
                            BuildVariable(named[KeptEntry(named, n)])])

\* Mutant of StepKind: an entry without kind is loaded as a say step.
StepKind_DefaultSay(raw) == PyStr(StrOf(Get(raw.d, f_kind, k_say)))

\* kind=str(raw.get("kind", ""))
StepKind(raw) == PyStr(StrOf(Get(raw.d, f_kind, PyStr(<< >>))))

\* args=dict(raw.get("args", {})) if isinstance(raw.get("args"), dict) else {}
StepArgsOf(raw) ==
    IF IsDict(Get(raw.d, f_args, PyNone)) THEN raw.d[f_args].d ELSE EmptyDict

\* Step(kind=..., ref=..., text=..., call=..., args=...) of _build_steps
BuildStep(raw) ==
    Step(StepKind(raw),
         Get(raw.d, f_ref, PyNone),
         StrOf(Get(raw.d, f_text, PyStr(<< >>))),
         Get(raw.d, f_call, PyNone),
         StepArgsOf(raw))

\* Mutant of FreshSteps: the list is the one the load before filled.
FreshSteps_Kept == IF protocol = PyNone THEN << >> ELSE protocol.steps

\* steps: List[Step] = [], a new list in every call
FreshSteps == << >>

\* _build_steps(raw_steps)
BuildSteps(raw_steps) ==
    IF ~Truthy(raw_steps) THEN Built(FreshSteps)
    ELSE IF ~Iterable(raw_steps) THEN Failed(NotIterable(raw_steps))
    ELSE LET dicts == SelectSeq(Items(raw_steps), IsDict)
         IN  Built(FreshSteps \o [i \in 1..Len(dicts) |-> BuildStep(dicts[i])])

\* Mutant of KnownKeys: steps is not among the known keys.
KnownKeys_NoSteps == {f_id, f_title, f_version, f_description, f_variables}

\* known_keys
KnownKeys == {f_id, f_title, f_version, f_description, f_variables, f_steps}

\* metadata = {k: v for k, v in data.items() if k not in known_keys}
Metadata(d) == [k \in (DOMAIN d) \ KnownKeys |-> d[k]]

\* load_protocol_file(path) where path.stem is `stem` and yaml.safe_load
\* returned `raw`.
LoadProtocolFile(stem, raw) ==
    LET data == IF Truthy(raw) THEN raw ELSE PyDict(EmptyDict)
        protocol_id == StrOf(Get(data.d, f_id, PyStr(stem)))
        variables == BuildVariables(Get(data.d, f_variables, PyNone))
        steps == BuildSteps(Get(data.d, f_steps, PyNone))
    IN  IF ~IsDict(data) THEN Failed(Err("AttributeError", "no_get", 0, data, PyNone))
        ELSE IF variables.raised THEN Failed(variables.error)
        ELSE IF steps.raised THEN Failed(steps.error)
        ELSE Built(Protocol(protocol_id,
                            StrOf(Get(data.d, f_title, PyStr(protocol_id))),
                            StrOf(Get(data.d, f_version, PyStr(<<"1", ".", "0">>))),
                            StrOf(Get(data.d, f_description, PyStr(<< >>))),
                            variables.value,
                            steps.value,
                            Metadata(data.d)))

----------------------------------------------------------------------------
(* Argument templates: runs [ask v, call m.f with args {base: template}] *)

\* The longest template, in pieces.
MaxPieces == 3

n_x == <<"x">>
n_y == <<"y">>

\* What the templates are written with: placeholders, and the characters of
\* _VAR_PATTERN on their own.
Pieces ==
    { <<"$", "{", "x", "}">>, <<"$", "{", "y", "}">>,
      <<"$">>, <<"{">>, <<"}">>, <<"x">>, <<"y">> }

\* The template strings: at most MaxPieces pieces written one after the other.
Templates == {Join(q, << >>) : q \in StepSeqs(Pieces, MaxPieces)}

\* Two optional Variables without default or options.
ArgVars == [n \in {n_x, n_y} |-> Variable(n, FALSE, PyNone, << >>)]

k_base == <<"b", "a", "s", "e">>

\* args: {base: template}
ArgsOf(template) == [k \in {k_base} |-> PyStr(template)]

ArgProtocols ==
    {ProtocolOf(ArgVars, <<Step(k_ask, PyStr(n), << >>, PyNone, EmptyDict),
                           Step(k_call, PyNone, << >>, c_mf, ArgsOf(t))>>) :
        n \in {n_x, n_y}, t \in Templates}

InitArgs ==
    /\ library = NoLibrary
    /\ source = NoSource
    /\ protocol \in ArgProtocols
    /\ ui = "scripted"
    /\ values = EmptyDict
    /\ pc = "new"
    /\ idx = 0
    /\ result = PyNone
    /\ errors = << >>
    /\ ran = << >>
    /\ log = << >>

NextArgs ==
    \/ Start
    \/ StepAsk
    \/ StepCall
    \/ Return

SpecArgs == InitArgs /\ [][NextArgs]_vars

\* s has no "${" in it.
NoOpening(s) == \A k \in 1..(Len(s) - 1) : ~(s[k] = "$" /\ s[k + 1] = "{")

\* The template of the call step that is about to run.
CurTemplate == CurStep.args[k_base].s

\* The call step at idx hands the operation the args {base: str}.
Invoked(str) ==
    /\ Len(log') = Len(log) + 2
    /\ Last(log').op = "invoke"
    /\ Last(log').step = idx
    /\ Last(log').arg = PyDict(ArgsOf(str))

\* C11: in argument resolution a placeholder ${name} whose name is not a key
\* of the accumulated state when the step runs is replaced by the empty
\* string. For a template  pre ${name} post  whose first placeholder it is,
\* the operation is reached (the step does not fail in resolution) with pre
\* followed by the resolution of post, which is post itself when post holds no
\* placeholder: nothing of ${name} is left.
C11_UnknownPlaceholderEmpty ==
    [][(Running /\ Kind(CurStep) = CallKind) =>
         \A i \in 1..Len(CurTemplate) : \A j \in (i + 3)..Len(CurTemplate) :
            LET pre  == SubSeq(CurTemplate, 1, i - 1)
                name == SubSeq(CurTemplate, i + 2, j - 1)
                post == SubSeq(CurTemplate, j + 1, Len(CurTemplate))
            IN  (/\ CurTemplate[i] = "$"
                 /\ CurTemplate[i + 1] = "{"
                 /\ CurTemplate[j] = "}"
                 /\ \A k \in 1..Len(name) : name[k] # "}"
                 /\ NoOpening(pre)
                 /\ name \notin DOMAIN values) =>
                    /\ Invoked(pre \o SubFrom(post, 1, values))
                    /\ NoOpening(post) => Invoked(pre \o post)]_vars

\* The operation was called with {base: "y"} for the template y${x} while the
\* state held y and not x.
C11_Witness ==
    /\ LastCall("invoke")
    /\ protocol.steps[2].args = ArgsOf(<<"y", "$", "{", "x", "}">>)
    /\ DOMAIN values = {n_y}
    /\ Last(log).arg = PyDict(ArgsOf(<<"y">>))

----------------------------------------------------------------------------
(* Claims on the string form of substituted values *)

\* What ${tempo} is to become: the text Python's str() gives the value the
\* state holds under tempo when the step runs.
TempoText(vals) ==
    IF n_tempo \notin DOMAIN vals THEN << >>
    ELSE CASE vals[n_tempo] = PyInt(120)     -> <<"1", "2", "0">>
           [] vals[n_tempo] = PyBool(TRUE)   -> <<"T", "r", "u", "e">>
           [] vals[n_tempo] = PyBool(FALSE)  -> <<"F", "a", "l", "s", "e">>
           [] vals[n_tempo].t = "str"        -> vals[n_tempo].s

\* C12: a placeholder is replaced by the string form of the value the state
\* holds when the call step runs: args {base: "${tempo}"} reach the operation
\* as {base: "120"}, a string, when tempo is 120 (and as "True", "False" or
\* the text itself for the other values tempo can hold), never as the value.
C12_StringForm ==
    [][(Running /\ Kind(CurStep) = CallKind /\ CurStep.call = c_mf /\ CurStep.args = a_base)
          => Invoked(TempoText(values))]_vars

\* The operation was called with {base: "120"} while the state held the
\* number 120 under tempo.
C12_Witness ==
    /\ LastCall("invoke")
    /\ protocol.steps[Len(ran)].args = a_base
    /\ n_tempo \in DOMAIN values
    /\ values[n_tempo] = PyInt(120)
    /\ Last(log).arg = PyDict(ArgsOf(<<"1", "2", "0">>))

----------------------------------------------------------------------------
(* Claims on finalize *)

\* What a mapping handed to the presentation reads as while the state is vals.
Deref(arg, vals) == IF arg = LiveValues THEN PyDict(vals) ELSE arg

\* C13: a finalize step hands the presentation's finalize a mapping equal to
\* the accumulated state at that point; what was handed over reads the same
\* after every later write to the state (it is a copy); and a finalize that
\* returned leaves the run going at the next step, so that a run that returns
\* has run every step after it.
C13_FinalizeSnapshot ==
    /\ [][(Running /\ Kind(CurStep) = FinalizeKind) =>
             /\ Len(log') = Len(log) + 1
             /\ Last(log').op = "finalize"
             /\ Last(log').step = idx
             /\ Deref(Last(log').arg, values) = PyDict(values)
             /\ values' = values]_vars
    /\ [][\A j \in 1..Len(log) : log[j].op = "finalize" =>
             Deref(log[j].arg, values') = Deref(log[j].arg, values)]_vars
    /\ [] ((LastCall("finalize") /\ Last(log).ret # Raised) =>
             /\ pc \in {"running", "returned"}
             /\ idx = Len(ran) + 1
             /\ errors = << >>)
    /\ [] (pc = "returned" => Len(ran) = Len(protocol.steps))

\* A run whose first step was a finalize has returned after two more steps,
\* the state having been written since: finalize was handed the empty mapping.
C13_Witness ==
    /\ pc = "returned"
    /\ Len(ran) = 3
    /\ log[1].op = "finalize"
    /\ log[1].step = 1
    /\ log[1].arg = PyDict(EmptyDict)
    /\ values # EmptyDict

----------------------------------------------------------------------------
(* Failing steps: runs over steps of unknown kind and calls the resolver refuses *)

k_wobble  == PyStr(<<"w", "o", "b", "b", "l", "e">>)
k_Wobble  == PyStr(<<" ", "W", "o", "b", "b", "l", "e">>)
k_missing == PyStr(<< >>)

c_nodot == PyStr(<<"n", "o", "d", "o", "t">>)
c_zzf   == PyStr(<<"z", "z", ".", "f">>)
c_mg    == PyStr(<<"m", ".", "g">>)
c_mc    == PyStr(<<"m", ".", "c">>)

\* The steps of these runs: two that succeed, the unknown kinds, and one call
\* for each check of the resolver.
ErrorPool ==
    { Step(k_say, PyNone, t_hi, PyNone, EmptyDict),
      Step(k_ask, PyStr(n_tempo), << >>, PyNone, EmptyDict),
      Step(k_wobble, PyNone, << >>, PyNone, EmptyDict),
      Step(k_Wobble, r_r, t_hi, c_mf, EmptyDict),
      Step(k_missing, PyNone, << >>, PyNone, EmptyDict),
      Step(k_call, r_r, << >>, PyNone, EmptyDict),
      Step(k_call, r_r, << >>, c_nodot, EmptyDict),
      Step(k_call, r_r, << >>, c_zzf, EmptyDict),
      Step(k_call, r_r, << >>, c_mg, EmptyDict),
      Step(k_call, r_r, << >>, c_mc, EmptyDict),
      Step(k_call, r_r, << >>, c_mf, EmptyDict) }

ErrorProtocols == {ProtocolOf(DeclaredVars, s) : s \in StepSeqs(ErrorPool, MaxSteps)}

InitErrors ==
    /\ library = NoLibrary
    /\ source = NoSource
    /\ protocol \in ErrorProtocols
    /\ ui \in {"console", "scripted"}
    /\ values = EmptyDict
    /\ pc = "new"
    /\ idx = 0
    /\ result = PyNone
    /\ errors = << >>
    /\ ran = << >>
    /\ log = << >>

NextErrors ==
    \/ Start
    \/ StepSay
    \/ StepAsk
    \/ StepCall
    \/ StepUnknown
    \/ Return

SpecErrors == InitErrors /\ [][NextErrors]_vars

\* C14: a step of unrecognized kind makes the run fail with an error that
\* gives the step's 1-based position and its kind string as written; the
\* failing step changes neither the state nor the calls made so far (the
\* effects of the steps before it persist), and nothing runs once the run
\* has failed: no later step, no call.
C14_UnknownKindFails ==
    /\ [][(Running /\ Kind(CurStep) \notin KnownKinds) =>
             /\ pc' = "raised"
             /\ errors' = <<Err("ValueError", "unknown_kind", idx, CurStep.kind, PyNone)>>
             /\ idx = Len(ran) + 1
             /\ ran' = Append(ran, idx)
             /\ values' = values
             /\ log' = log]_vars
    /\ [][pc # "raised"]_vars
    /\ [] (pc = "raised" => /\ Len(ran) = idx
                            /\ \A j \in 1..Len(log) : log[j].step \in 1..idx)

\* The second step, of kind " Wobble", has failed the run: the answer the
\* first step recorded is in the state, and the third step has not run.
C14_Witness ==
    /\ pc = "raised"
    /\ Len(protocol.steps) = 3
    /\ protocol.steps[2].kind = k_Wobble
    /\ errors = <<Err("ValueError", "unknown_kind", 2, k_Wobble, PyNone)>>
    /\ ran = <<1, 2>>
    /\ Len(log) = 1
    /\ log[1].op = "ask"
    /\ n_tempo \in DOMAIN values

\* The operation references the resolver refuses, with None for a call step
\* that has none.
RefusedCalls == {PyNone, c_nodot, c_zzf, c_mg, c_mc}

\* The error each refused reference is to end the run with at step i.
Refusal(i, call) ==
    CASE call = PyNone  -> Err("ValueError", "call_missing_call", i, PyNone, PyNone)
      [] call = c_nodot -> Err("ValueError", "invalid_call_target", i, c_nodot, PyNone)
      [] call = c_zzf   -> Err("ImportError", "failed_to_import", i, PyStr(<<"z", "z">>),
                               PyStr(<<"N", "o", " ", "m", "o", "d", "u", "l", "e">>))
      [] call = c_mg    -> Err("AttributeError", "no_attribute", i, c_mg, PyNone)
      [] call = c_mc    -> Err("TypeError", "not_callable", i, c_mc, PyNone)

\* C15: each check made before an operation is invoked ends the run with its
\* own error carrying the step position, and no operation is invoked: a call
\* step without operation reference, a reference without ".", a module that
\* cannot be imported (the error wraps the cause), a module without the
\* attribute, an attribute that is not callable. The five errors differ, the
\* state is left as it was and nothing is stored under the step's ref.
C15_ResolverChecks ==
    [][(Running /\ Kind(CurStep) = CallKind /\ CurStep.call \in RefusedCalls) =>
         /\ pc' = "raised"
         /\ errors' = <<Refusal(idx, CurStep.call)>>
         /\ Last(errors').step = Len(ran')
         /\ \A c \in RefusedCalls \ {CurStep.call} :
                Refusal(idx, c).what # Last(errors').what
         /\ \A j \in (Len(log) + 1)..Len(log') : log'[j].op # "invoke"
         /\ values' = values]_vars

\* The run has failed at its second step, a call of m.c, which is not
\* callable: no operation was invoked at that step.
C15_Witness ==
    /\ pc = "raised"
    /\ idx = 2
    /\ protocol.steps[2].call = c_mc
    /\ errors = <<Err("TypeError", "not_callable", 2, c_mc, PyNone)>>
    /\ \A j \in 1..Len(log) : log[j].step = 2 => log[j].op = "execute_call"
    /\ \E j \in 1..Len(log) : log[j].step = 2

\* C16 as stated: when the invoked operation fails, the error reported is
\* 'bad arguments' if the args did not fit the operation's parameters and the
\* generic 'error in' for every other exception the operation raises, and in
\* both cases it carries the step position, the reference and the original
\* message.
C16_FailureReports ==
    (LastCall("invoke") /\ Last(log).ret = Raised) =>
        /\ pc = "raised"
        /\ Last(errors).step = Len(ran)
        /\ Last(errors).detail = Last(log).target
        /\ Last(errors).cause \in {PyStr(m) : m \in OpMessages \cup {BindMessage}}
        /\ Last(errors).what =
              (IF Last(errors).cause = PyStr(BindMessage) THEN "bad_arguments" ELSE "error_in")

----------------------------------------------------------------------------
(* Claims on runs answered with the defaults *)

\* Every answer the presentation has given to ask is the Variable's default.
DefaultsOnly ==
    \A j \in 1..Len(log) : log[j].op = "ask" => log[j].ret = AskedVar(log[j]).default

\* The Variable an ask step refers to.
VarOf(step) == protocol.variables[step.ref.s]

\* C17: in a run that completes with a presentation whose ask always returns
\* the Variable's default, the final state contains every required Variable
\* an ask step refers to, and the names the ask steps put into the state are
\* exactly those of the ask-referenced Variables with a non-empty default:
\* an ask answered with a non-empty default stores it under the Variable's
\* name, one answered with an absent or "" default stores nothing.
C17_DefaultsRun ==
    /\ [] ((pc = "returned" /\ DefaultsOnly) =>
             \A i \in 1..Len(protocol.steps) :
                Kind(protocol.steps[i]) = AskKind =>
                   /\ VarOf(protocol.steps[i]).required =>
                          VarOf(protocol.steps[i]).name \in DOMAIN values
                   /\ ~Absent(VarOf(protocol.steps[i]).default) =>
                          VarOf(protocol.steps[i]).name \in DOMAIN values)
    /\ [][(/\ Len(log') = Len(log) + 1
           /\ Last(log').op = "ask"
           /\ Last(log').ret = AskedVar(Last(log')).default) =>
             values' = (IF Absent(AskedVar(Last(log')).default)
                        THEN values
                        ELSE Put(values, Last(log').arg.s, AskedVar(Last(log')).default))]_vars

\* A run that asked tempo (default 120) and blank (default "") and was
\* answered the defaults has returned with tempo alone in the state.
C17_Witness ==
    /\ pc = "returned"
    /\ DefaultsOnly
    /\ Len(log) = 2
    /\ log[1].op = "ask" /\ log[1].arg = PyStr(n_tempo)
    /\ log[2].op = "ask" /\ log[2].arg = PyStr(n_blank)
    /\ values = [k \in {n_tempo} |-> PyInt(120)]

----------------------------------------------------------------------------
(* Loading a file and running what was loaded *)

\* The longest list of raw step entries.
MaxRawSteps == 3

\* The longest list of variable entries of a document.
MaxRawVars == 3

\* A dict written as a sequence of <<key, value>> pairs.
DictOf(pairs) ==
    [k \in {pairs[i][1] : i \in 1..Len(pairs)} |->
        pairs[CHOOSE i \in 1..Len(pairs) : pairs[i][1] = k][2]]

\* The dict d with d[k] = v, and with k removed.
With(d, k, v) == PyDict(Put(d.d, k, v))
Without(d, k) == PyDict([x \in (DOMAIN d.d) \ {k} |-> d.d[x]])

\* What a field of a YAML document may hold: null, scalars, mappings, lists.
FieldValues ==
    { PyNone, PyStr(<< >>), PyStr(<<"x">>), PyInt(0), PyInt(5), PyBool(TRUE), PyBool(FALSE),
      PyDict(EmptyDict), PyDict(DictOf(<< <<n_x, PyInt(5)>> >>)),
      PyList(<< >>), PyList(<<PyInt(5)>>) }

\* The dict d with one of the fields set to each value, or left out.
Variants(d, fields) ==
    {With(d, k, v) : k \in fields, v \in FieldValues} \cup {Without(d, k) : k \in fields}

f_author == <<"a", "u", "t", "h", "o", "r">>
f_tags   == <<"t", "a", "g", "s">>

RawOption ==
    PyDict(DictOf(<< <<f_label, PyStr(<<"l">>)>>, <<f_value, PyStr(<<"x">>)>>,
                     <<f_rationale, PyStr(<<"r">>)>> >>))

RawVariable ==
    PyDict(DictOf(<< <<f_name, PyStr(n_tempo)>>, <<f_type, PyStr(<<"n", "u", "m", "b", "e", "r">>)>>,
                     <<f_prompt, PyStr(<<"?">>)>>, <<f_required, PyBool(TRUE)>>,
                     <<f_default, PyInt(120)>>, <<f_options, PyList(<<RawOption>>)>>,
                     <<f_validate_regex, PyStr(<<"r">>)>> >>))

RawSay ==
    PyDict(DictOf(<< <<f_kind, k_say>>, <<f_ref, r_r>>, <<f_text, PyStr(t_hi)>>,
                     <<f_call, c_mf>>, <<f_args, PyDict(a_base)>> >>))

RawAsk == PyDict(DictOf(<< <<f_kind, k_ask>>, <<f_ref, PyStr(n_tempo)>> >>))

\* Step entries of a kind no branch of _run_step takes, or without kind.
RawWobble  == PyDict(DictOf(<< <<f_kind, k_wobble>> >>))
RawNoKind  == PyDict(DictOf(<< <<f_text, PyStr(t_hi)>> >>))

\* A document with every field in place and two keys the loader does not know.
RawDocument ==
    PyDict(DictOf(<< <<f_id, PyStr(<<"p">>)>>, <<f_title, PyStr(<<"T">>)>>,
                     <<f_version, PyStr(<<"2">>)>>, <<f_description, PyStr(<<"d">>)>>,
                     <<f_variables, PyList(<<RawVariable>>)>>,
                     <<f_steps, PyList(<<RawSay, RawAsk>>)>>,
                     <<f_author, PyStr(<<"x">>)>>, <<f_tags, PyList(<<PyInt(5)>>)>> >>))

\* Variable entries: tempo again with another default, one under another
\* name, one whose name is the number 5, ones without a name (the second
\* with options no loop can go through) or with an empty name.
RawTempo90  == With(RawVariable, f_default, PyInt(90))
RawKey      == PyDict(DictOf(<< <<f_name, PyStr(n_key)>>, <<f_required, PyBool(FALSE)>> >>))
RawFive     == PyDict(DictOf(<< <<f_name, PyInt(5)>>, <<f_default, PyStr(<<"x">>)>> >>))
RawNoName   == Without(RawVariable, f_name)
RawNameless == PyDict(DictOf(<< <<f_name, PyStr(<< >>)>>, <<f_options, PyInt(5)>> >>))

VarEntryPool == {RawVariable, RawTempo90, RawKey, RawFive, RawNoName, RawNameless, PyInt(5)}

TopFields    == {f_id, f_title, f_version, f_description, f_variables, f_steps,
                 f_author, f_tags}
VarFields    == {f_name, f_type, f_prompt, f_required, f_default, f_options,
                 f_validate_regex}
OptionFields == {f_label, f_value, f_rationale}
StepFields   == {f_kind, f_ref, f_text, f_call, f_args}

\* The documents: RawDocument with one field, at the top, in its variable
\* entry, in the option of that entry or in its first step entry, holding
\* each value or left out; RawDocument cut down to each subset of its keys;
\* every list of at most MaxRawSteps step entries, with entries that are not
\* mappings among them; every list of at most MaxRawVars variable entries of
\* VarEntryPool; an empty file; a file that is a list.
RawDocuments ==
    Variants(RawDocument, TopFields)
      \cup {With(RawDocument, f_variables, PyList(<<v>>)) : v \in Variants(RawVariable, VarFields)}
      \cup {With(RawDocument, f_variables,
                 PyList(<<With(RawVariable, f_options, PyList(<<o>>))>>)) :
               o \in Variants(RawOption, OptionFields)}
      \cup {With(RawDocument, f_steps, PyList(<<e, RawAsk>>)) : e \in Variants(RawSay, StepFields)}
      \cup {PyDict([k \in K |-> RawDocument.d[k]]) : K \in SUBSET TopFields}
      \cup {With(RawDocument, f_steps, PyList(q)) :
               q \in StepSeqs({RawSay, RawAsk, RawWobble, RawNoKind, PyInt(5)}, MaxRawSteps)}
      \cup {With(RawDocument, f_variables, PyList(q)) : q \in StepSeqs(VarEntryPool, MaxRawVars)}
      \cup {PyNone, PyList(<<PyInt(5)>>)}

\* No Protocol yet.
NoProtocol == PyNone

InitLoad ==
    /\ library = NoLibrary
    /\ source \in {[stem |-> <<"s">>, data |-> d] : d \in RawDocuments}
    /\ protocol = NoProtocol
    /\ ui \in {"console", "scripted"}
    /\ values = EmptyDict
    /\ pc = "file"
    /\ idx = 0
    /\ result = PyNone
    /\ errors = << >>
    /\ ran = << >>
    /\ log = << >>

\* AIAgent(load_protocol_file(path), ui): the agent is built on the Protocol
\* loaded, or the loader's exception ends everything.
LoadFile ==
    /\ pc = "file"
    /\ LET loaded == LoadProtocolFile(source.stem, source.data)
       IN  IF loaded.raised
           THEN /\ pc' = "load_raised"
                /\ errors' = <<loaded.error>>
                /\ UNCHANGED protocol
           ELSE /\ pc' = "new"
                /\ protocol' = loaded.value
                /\ UNCHANGED errors
    /\ UNCHANGED <<library, source, ui, values, idx, result, ran, log>>

NextLoad ==
    \/ LoadFile
    \/ Start
    \/ StepSay
    \/ StepAsk
    \/ StepUnknown
    \/ Return

SpecLoad == InitLoad /\ [][NextLoad]_vars

----------------------------------------------------------------------------
(* Claims on the loader *)

\* The file has been loaded into a Protocol.
Loaded == pc \notin {"file", "load_raised"}

\* The file holds a mapping, or nothing at all.
IsMappingFile == source.data = PyNone \/ IsDict(source.data)

\* The top-level mapping of the file.
TopLevel == IF source.data = PyNone THEN EmptyDict ELSE source.data.d

\* C18 as stated: loading a parseable document never fails because of an
\* optional field, whatever the field holds (absent, null, scalar, mapping,
\* list), at the top level and in variable, option and step entries; a field
\* that is absent is loaded as its documented default.
C18_LoadNeverFails ==
    IsMappingFile =>
        /\ pc # "load_raised"
        /\ Loaded =>
              /\ f_id \notin DOMAIN TopLevel => protocol.id = source.stem
              /\ f_title \notin DOMAIN TopLevel => protocol.title = protocol.id
              /\ f_version \notin DOMAIN TopLevel => protocol.version = <<"1", ".", "0">>
              /\ f_description \notin DOMAIN TopLevel => protocol.description = << >>
              /\ f_variables \notin DOMAIN TopLevel => protocol.variables = EmptyDict
              /\ f_steps \notin DOMAIN TopLevel => protocol.steps = << >>

\* The step entries of the file that are mappings, when steps is a list.
StepEntries == SelectSeq(TopLevel[f_steps].l, IsDict)

\* The file is RawDocument with a list in place of its steps.
HasStepList ==
    /\ IsDict(source.data)
    /\ f_steps \in DOMAIN TopLevel
    /\ TopLevel[f_steps].t = "list"
    /\ source.data = With(RawDocument, f_steps, TopLevel[f_steps])

\* C19: a step entry whose kind is missing or unknown does not make loading
\* fail: each entry that is a mapping is loaded as a Step, in order, with
\* kind "" when the entry has none and its kind as written otherwise; the
\* unknown-kind failure is raised only by a run, at the step of that kind,
\* once every step before it has run.
C19_BadKindLoads ==
    /\ [] (HasStepList =>
             /\ pc # "load_raised"
             /\ Loaded =>
                  /\ Len(protocol.steps) = Len(StepEntries)
                  /\ \A i \in 1..Len(StepEntries) :
                        protocol.steps[i].kind =
                            (IF f_kind \in DOMAIN StepEntries[i].d
                             THEN PyStr(StrOf(StepEntries[i].d[f_kind]))
                             ELSE PyStr(<< >>)))
    /\ [] (\A j \in 1..Len(errors) : errors[j].what = "unknown_kind" =>
             /\ pc = "raised"
             /\ errors[j].step = idx
             /\ ran = UpTo(idx)
             /\ Kind(protocol.steps[idx]) \notin KnownKinds
             /\ \A i \in 1..(idx - 1) : Kind(protocol.steps[i]) \in KnownKinds)
    /\ [][pc = "file" => errors' = errors \/ pc' = "load_raised"]_vars

\* The file's second step entry has no kind: it was loaded with kind "", the
\* first step has shown its note, and the run failed at the second step.
C19_Witness ==
    /\ source.data = With(RawDocument, f_steps, PyList(<<RawSay, RawNoKind>>))
    /\ pc = "raised"
    /\ protocol.steps[2].kind = PyStr(<< >>)
    /\ errors = <<Err("ValueError", "unknown_kind", 2, PyStr(<< >>), PyNone)>>
    /\ Len(log) = 1
    /\ log[1].op = "note"
    /\ log[1].ret = PyNone

\* C20: the metadata of the loaded Protocol holds exactly the top-level keys
\* of the file other than id, title, version, description, variables and
\* steps, each with the value the file gives it.
C20_MetadataKept ==
    Loaded =>
        /\ DOMAIN protocol.metadata =
              (DOMAIN TopLevel) \ {<<"i", "d">>, <<"t", "i", "t", "l", "e">>,
                                   <<"v", "e", "r", "s", "i", "o", "n">>,
                                   <<"d", "e", "s", "c", "r", "i", "p", "t", "i", "o", "n">>,
                                   <<"v", "a", "r", "i", "a", "b", "l", "e", "s">>,
                                   <<"s", "t", "e", "p", "s">>}
        /\ \A k \in DOMAIN protocol.metadata : protocol.metadata[k] = TopLevel[k]

\* A file with the six known keys, author and tags (a list) has been loaded:
\* the metadata is {author, tags} with the list as it was.
C20_Witness ==
    /\ Loaded
    /\ DOMAIN TopLevel = TopFields
    /\ DOMAIN protocol.metadata = {f_author, f_tags}
    /\ protocol.metadata[f_tags] = PyList(<<PyInt(5)>>)
    /\ protocol.metadata[f_author] = PyDict(DictOf(<< <<n_x, PyInt(5)>> >>))

----------------------------------------------------------------------------
(* load_protocols: the files of a directory, loaded in the order of          *)
(* sorted(glob("*.yml")) + sorted(glob("*.yaml"))                             *)

\* The most files a directory holds.
MaxFiles == 3

\* The code points of the characters file names are written with.
CharCode(c) ==
    CASE c = "." -> 46  [] c = "a" -> 97  [] c = "b" -> 98  [] c = "c" -> 99
      [] c = "l" -> 108 [] c = "m" -> 109 [] c = "t" -> 116 [] c = "x" -> 120
      [] c = "y" -> 121

\* s < t for two strings, as sorted() compares the paths of one directory.
RECURSIVE LessStr(_, _)
LessStr(s, t) ==
    IF t = << >> THEN FALSE
    ELSE IF s = << >> THEN TRUE
    ELSE IF s[1] # t[1] THEN CharCode(s[1]) < CharCode(t[1])
    ELSE LessStr(Tail(s), Tail(t))

\* sorted(S) for a set of strings.
RECURSIVE Sorted(_)
Sorted(S) ==
    IF S = {} THEN << >>
    ELSE LET least == CHOOSE x \in S : \A y \in S \ {x} : LessStr(x, y)
         IN  <<least>> \o Sorted(S \ {least})

ext_yml  == <<".", "y", "m", "l">>
ext_yaml == <<".", "y", "a", "m", "l">>

\* name matches "*" followed by ext
EndsWith(name, ext) ==
    /\ Len(name) >= Len(ext)
    /\ SubSeq(name, Len(name) - Len(ext) + 1, Len(name)) = ext

\* directory.glob("*" + ext)
Glob(files, ext) == {name \in DOMAIN files : EndsWith(name, ext)}

\* sorted(directory.glob("*.yml")) + sorted(directory.glob("*.yaml"))
LoadOrder(files) == Sorted(Glob(files, ext_yml)) \o Sorted(Glob(files, ext_yaml))

\* path.stem: the name up to its last "."
Stem(name) == SubSeq(name, 1, LastDot(name) - 1)

\* The names files of the directory may have; the last is no protocol file.
FileNames == {<<"a", ".", "y", "m", "l">>, <<"b", ".", "y", "m", "l">>, <<"a", ".", "y", "a", "m", "l">>, <<"b", ".", "y", "a", "m", "l">>, <<"c", ".", "t", "x", "t">>}

id_p == <<"p">>
id_q == <<"q">>

\* What a file named `name` may hold: a document with its own name as title
\* and the id p, the id q or no id.
FileDocuments(name) ==
    { PyDict(DictOf(<< <<f_id, PyStr(id_p)>>, <<f_title, PyStr(name)>> >>)),
      PyDict(DictOf(<< <<f_id, PyStr(id_q)>>, <<f_title, PyStr(name)>> >>)),
      PyDict(DictOf(<< <<f_title, PyStr(name)>> >>)) }

\* The directories: at most MaxFiles files.
Directories ==
    UNION {{f \in [N -> UNION {FileDocuments(n) : n \in N}] :
               \A n \in N : f[n] \in FileDocuments(n)} :
           N \in {M \in SUBSET FileNames : Cardinality(M) <= MaxFiles}}

InitDir ==
    /\ library \in {[files |-> f, todo |-> << >>, protocols |-> EmptyDict, loaded |-> << >>] :
                       f \in Directories}
    /\ source = NoSource
    /\ protocol = NoProtocol
    /\ ui = "console"
    /\ values = EmptyDict
    /\ pc = "dir"
    /\ idx = 0
    /\ result = PyNone
    /\ errors = << >>
    /\ ran = << >>
    /\ log = << >>

\* load_protocols up to its loop: the paths to load, in order.
LoadProtocols ==
    /\ pc = "dir"
    /\ library' = [library EXCEPT !.todo = LoadOrder(library.files)]
    /\ pc' = "loading"
    /\ UNCHANGED <<source, protocol, ui, values, idx, result, errors, ran, log>>

\* One turn of the loop: proto = load_protocol_file(path); protocols[proto.id] = proto
LoadNextPath ==
    /\ pc = "loading"
    /\ library.todo # << >>
    /\ LET path == Head(library.todo)
           got  == LoadProtocolFile(Stem(path), library.files[path])
       IN  IF got.raised
           THEN /\ pc' = "load_raised"
                /\ errors' = <<got.error>>
                /\ UNCHANGED library
           ELSE /\ library' = [library EXCEPT
                                  !.todo = Tail(library.todo),
                                  !.protocols = Put(library.protocols, got.value.id, got.value),
                                  !.loaded = Append(library.loaded, path)]
                /\ UNCHANGED <<pc, errors>>
    /\ UNCHANGED <<source, protocol, ui, values, idx, result, ran, log>>

\* return protocols
ReturnProtocols ==
    /\ pc = "loading"
    /\ library.todo = << >>
    /\ pc' = "dir_returned"
    /\ UNCHANGED <<library, source, protocol, ui, values, idx, result, errors, ran, log>>

NextDir ==
    \/ LoadProtocols
    \/ LoadNextPath
    \/ ReturnProtocols

SpecDir == InitDir /\ [][NextDir]_vars

\* The id load_protocol_file gives the document of the file `name`.
IdOf(name) ==
    IF f_id \in DOMAIN library.files[name].d
    THEN library.files[name].d[f_id].s
    ELSE Stem(name)

\* The protocol files of the directory.
ProtocolFiles ==
    {name \in DOMAIN library.files : EndsWith(name, ext_yml) \/ EndsWith(name, ext_yaml)}

\* C21 as stated: when load_protocols has returned, the Document kept under
\* an id is the one of the file whose path sorts last among the .yml and
\* .yaml files of that id, and every id of such a file is a key.
C21_LastSortedWins ==
    pc = "dir_returned" =>
        /\ DOMAIN library.protocols = {IdOf(name) : name \in ProtocolFiles}
        /\ \A name \in ProtocolFiles :
              (\A other \in ProtocolFiles \ {name} :
                   IdOf(other) = IdOf(name) => LessStr(other, name)) =>
                 library.protocols[IdOf(name)].title = name

----------------------------------------------------------------------------
(* Loading one file twice *)

InitReload ==
    /\ library = NoLibrary
    /\ source \in {[stem |-> <<"s">>, data |-> d] : d \in RawDocuments}
    /\ protocol = NoProtocol
    /\ ui = "console"
    /\ values = EmptyDict
    /\ pc = "file"
    /\ idx = 0
    /\ result = PyNone
    /\ errors = << >>
    /\ ran = << >>
    /\ log = << >>

\* load_protocol_file(path) called once more on the file already loaded: the
\* Protocol it returns takes the place of the first.
ReloadFile ==
    /\ pc = "new"
    /\ LET loaded == LoadProtocolFile(source.stem, source.data)
       IN  IF loaded.raised
           THEN /\ pc' = "load_raised"
                /\ errors' = <<loaded.error>>
                /\ UNCHANGED protocol
           ELSE /\ pc' = "reloaded"
                /\ protocol' = loaded.value
                /\ UNCHANGED errors
    /\ UNCHANGED <<library, source, ui, values, idx, result, ran, log>>

NextReload ==
    \/ LoadFile
    \/ ReloadFile

SpecReload == InitReload /\ [][NextReload]_vars

----------------------------------------------------------------------------
(* Nested argument templates: runs [ask, ask, call m.f with nested args]     *)

t_xy == <<"$", "{", "y", "}", "$", "{", "x", "}">>
t_py == <<"$", "{", "y", "}">>
k_deep == <<"d", "e", "e", "p">>
k_list == <<"$", "{", "x", "}">>
k_none == <<"n">>
k_bool == <<"b">>
k_z    == <<"z">>

\* x with a default that reads as a placeholder, y with a plain one.
NestedVars ==
    [n \in {n_x, n_y} |->
        IF n = n_x THEN Variable(n, FALSE, PyStr(t_py), << >>)
        ELSE Variable(n, FALSE, PyStr(<<"v">>), << >>)]

\* args with the strings a and b at four places: at the top, in a list in a
\* mapping, in a mapping in that list, in a list in that list; the mapping has
\* a key that reads as a placeholder, and values that are no strings.
NestedArgsOf(a, b) ==
    DictOf(<< <<k_base, a>>,
              <<k_deep, PyDict(DictOf(<<
                  <<k_list, PyList(<<a, PyInt(5), PyDict(DictOf(<< <<k_z, b>> >>)),
                                     PyList(<<a>>)>>)>>,
                  <<k_none, PyNone>>,
                  <<k_bool, PyBool(TRUE)>> >>))>> >>)

NestedProtocols ==
    {ProtocolOf(NestedVars, <<Step(k_ask, PyStr(n), << >>, PyNone, EmptyDict),
                              Step(k_ask, PyStr(m), << >>, PyNone, EmptyDict),
                              Step(k_call, PyNone, << >>, c_mf,
                                   NestedArgsOf(PyStr(t), PyStr(t_xy)))>>) :
        n \in {n_x, n_y}, m \in {n_x, n_y}, t \in Templates}

InitNested ==
    /\ library = NoLibrary
    /\ source = NoSource
    /\ protocol \in NestedProtocols
    /\ ui = "console"
    /\ values = EmptyDict
    /\ pc = "new"
    /\ idx = 0
    /\ result = PyNone
    /\ errors = << >>
    /\ ran = << >>
    /\ log = << >>

NextNested ==
    \/ Start
    \/ StepAsk
    \/ StepCall
    \/ Return

SpecNested == InitNested /\ [][NextNested]_vars

\* The string s with its placeholders replaced from the state vals.
Substituted(s, vals) == PyStr(SubFrom(s, 1, vals))

\* C23: argument resolution reaches every string at any depth: the operation
\* receives args of the same shape, with the same keys (a key that reads as a
\* placeholder included) and the same non-string values (5, None, True), in
\* which each string, at the top, in a list, in a mapping in a list and in a
\* list in a list, has its placeholders replaced.
C23_NestedResolved ==
    [][(Running /\ Kind(CurStep) = CallKind) =>
         /\ Len(log') = Len(log) + 2
         /\ Last(log').op = "invoke"
         /\ Last(log').step = idx
         /\ Last(log').arg =
               PyDict(NestedArgsOf(Substituted(CurTemplate, values),
                                   Substituted(t_xy, values)))]_vars

\* The operation was called with x and y in the state and the template
\* y${y}: the list in the list holds "yv", the mapping in the list holds
\* "v${y}", the 5 is still 5.
C23_Witness ==
    /\ LastCall("invoke")
    /\ DOMAIN values = {n_x, n_y}
    /\ protocol.steps[3].args[k_base] = PyStr(<<"y", "$", "{", "y", "}">>)
    /\ Last(log).arg.d[k_deep].d[k_list].l[4].l[1] = PyStr(<<"y", "v">>)
    /\ Last(log).arg.d[k_deep].d[k_list].l[3].d[k_z] = PyStr(<<"v", "$", "{", "y", "}">>)
    /\ Last(log).arg.d[k_deep].d[k_list].l[2] = PyInt(5)

\* C24: substitution is one pass per string: for a template  pre ${x} post
\* with no other placeholder, the operation receives pre, the text of the
\* state's value for x and post, also when that text is ${y} and the state
\* has a value for y: the ${y} stays.
C24_SinglePass ==
    [][(Running /\ Kind(CurStep) = CallKind /\ n_x \in DOMAIN values) =>
         \A i \in 1..(Len(CurTemplate) - 3) :
            LET pre  == SubSeq(CurTemplate, 1, i - 1)
                post == SubSeq(CurTemplate, i + 4, Len(CurTemplate))
            IN  (/\ SubSeq(CurTemplate, i, i + 3) = <<"$", "{", "x", "}">>
                 /\ NoOpening(pre)
                 /\ NoOpening(post)) =>
                    /\ Last(log').op = "invoke"
                    /\ Last(log').arg.d[k_base] = PyStr(pre \o values[n_x].s \o post)]_vars

\* The operation was called with {base: "${y}"} for the template ${x}, the
\* state holding ${y} under x and v under y.
C24_Witness ==
    /\ LastCall("invoke")
    /\ protocol.steps[3].args[k_base] = PyStr(<<"$", "{", "x", "}">>)
    /\ values = [n \in {n_x, n_y} |-> IF n = n_x THEN PyStr(t_py) ELSE PyStr(<<"v">>)]
    /\ Last(log).arg.d[k_base] = PyStr(t_py)

----------------------------------------------------------------------------
(* Runs over steps of every kind, several of them writing the key tempo *)

k_note == PyStr(<<"n", "o", "t", "e">>)

KindPool ==
    { Step(k_say, PyNone, t_hi, PyNone, EmptyDict),
      Step(k_note, PyStr(n_tempo), t_hi, PyNone, EmptyDict),
      Step(k_ask, PyStr(n_tempo), << >>, PyNone, EmptyDict),
      Step(k_confirm, PyStr(n_tempo), << >>, PyNone, EmptyDict),
      Step(k_confirm, PyNone, t_hi, PyNone, EmptyDict),
      Step(k_call, PyStr(n_tempo), << >>, c_mf, a_base),
      Step(k_finalize, PyNone, << >>, PyNone, EmptyDict),
      Step(k_wobble, PyNone, << >>, PyNone, EmptyDict) }

KindProtocols == {ProtocolOf(DeclaredVars, s) : s \in StepSeqs(KindPool, MaxSteps)}

InitKinds ==
    /\ library = NoLibrary
    /\ source = NoSource
    /\ protocol \in KindProtocols
    /\ ui \in {"console", "scripted"}
    /\ values = EmptyDict
    /\ pc = "new"
    /\ idx = 0
    /\ result = PyNone
    /\ errors = << >>
    /\ ran = << >>
    /\ log = << >>

SpecKinds == InitKinds /\ [][Next]_vars

\* C25: the accumulated state is empty when the first step of a run begins,
\* and while the run goes on no step removes a key: the keys after a step
\* include the keys before it.
C25_StateGrows ==
    /\ [] ((pc = "running" /\ ran = << >>) => values = EmptyDict)
    /\ [][pc = "running" => (DOMAIN values) \subseteq (DOMAIN values')]_vars

\* A run has written tempo at its first step and confirm_3 at its third.
C25_Witness ==
    /\ Len(ran) = 3
    /\ LastCall("confirm")
    /\ Last(log).ret = PyBool(TRUE)
    /\ protocol.steps[1].kind = k_ask
    /\ DOMAIN values = {n_tempo, <<"c", "o", "n", "f", "i", "r", "m", "_", "3">>}

\* The value a step that has just made the call e stores: the answer of an
\* ask, or the Variable's default when the answer is absent or ""; the
\* boolean of a confirm; what the operation of a call returned.
Written(e) ==
    IF e.op = "ask" /\ Absent(e.ret) THEN protocol.variables[e.arg.s].default ELSE e.ret

\* C27: writes to the state are last-write-wins without conflict detection:
\* when an ask, a confirm or a call whose ref is already a key of the state
\* comes back from the presentation or the operation with a value to
\* store, the run does not fail, the key holds the value of this step and every other key is as it
\* was.
C27_LastWriteWins ==
    [][(/\ Running
        /\ CurStep.kind \in {k_ask, k_confirm, k_call}
        /\ CurStep.ref # PyNone
        /\ CurStep.ref.s \in DOMAIN values
        /\ Len(log') > Len(log)
        /\ Last(log').ret # Raised
        /\ (Last(log').op = "ask" => ~Absent(Written(Last(log'))))) =>
            /\ pc' = "running"
            /\ errors' = errors
            /\ idx' = idx + 1
            /\ values' = [values EXCEPT ![CurStep.ref.s] = Written(Last(log'))]]_vars

\* An ask of tempo was answered, then a confirm with ref tempo: the run has
\* returned with the confirm's boolean under tempo.
C27_Witness ==
    /\ pc = "returned"
    /\ Len(log) = 2
    /\ log[1].op = "ask" /\ log[1].ret = PyStr(<<"x">>)
    /\ log[2].op = "confirm" /\ log[2].ret = PyBool(FALSE)
    /\ values = [k \in {n_tempo} |-> PyBool(FALSE)]

\* C28: a say or note step calls the presentation's note once with the
\* step's text and leaves the state as it was; a finalize step leaves the
\* state as it was.
C28_NoteAndFinalizeFrame ==
    /\ [][(Running /\ CurStep.kind \in {k_say, k_note}) =>
             /\ Len(log') = Len(log) + 1
             /\ Last(log').op = "note"
             /\ Last(log').step = idx
             /\ Last(log').arg = PyStr(CurStep.text)
             /\ values' = values]_vars
    /\ [][(Running /\ CurStep.kind = k_finalize) => values' = values]_vars

\* A note step has shown its text as third step, the state holding what the
\* two steps before it wrote.
C28_Witness ==
    /\ LastCall("note")
    /\ Len(ran) = 3
    /\ protocol.steps[3].kind = k_note
    /\ Last(log).arg = PyStr(t_hi)
    /\ Last(log).ret = PyNone
    /\ Cardinality(DOMAIN values) = 2

\* C26: a run never changes the Document it executes: at every step of a
\* run, whether it succeeds or fails, the Document's variables, its steps
\* and the argument template of every step stay as they were; resolving the
\* arguments of a call leaves the template with its placeholders.
C26_DocumentUnchanged ==
    [][/\ protocol' = protocol
       /\ protocol'.variables = protocol.variables
       /\ protocol'.steps = protocol.steps
       /\ \A i \in DOMAIN protocol.steps : protocol'.steps[i].args = protocol.steps[i].args]_vars

\* An ask stored tempo, then a call resolved ${tempo} to the stored value and
\* its operation failed: the run has stopped and the step's template still
\* holds the placeholder.
C26_Witness ==
    /\ pc = "raised"
    /\ Len(ran) = 2
    /\ protocol.steps[2].kind = k_call
    /\ protocol.steps[2].args = a_base
    /\ Last(log).op = "invoke"
    /\ Last(log).ret = Raised
    /\ Last(log).arg = PyDict([k \in DOMAIN a_base |-> PyStr(<<"x">>)])
    /\ values = [k \in {n_tempo} |-> PyStr(<<"x">>)]

\* The file is RawDocument with a list of entries of VarEntryPool as its
\* variables.
HasVarList ==
    /\ IsDict(source.data)
    /\ f_variables \in DOMAIN TopLevel
    /\ TopLevel[f_variables].t = "list"
    /\ \A i \in 1..Len(TopLevel[f_variables].l) : TopLevel[f_variables].l[i] \in VarEntryPool
    /\ source.data = With(RawDocument, f_variables, TopLevel[f_variables])

\* The variable entries of the file, and the name one of them is loaded
\* under: its name as a string, or nothing when it is not a mapping or its
\* name is missing or empty.
VarEntries == TopLevel[f_variables].l
NameOf(e) ==
    IF e.t = "dict" /\ f_name \in DOMAIN e.d /\ e.d[f_name] \notin {PyNone, PyStr(<< >>)}
    THEN StrOf(e.d[f_name]) ELSE << >>

\* C29: in every loaded Document each entry of the variables mapping has a
\* non-empty name equal to its key; raw entries without a name are dropped
\* without error, the mapping holding exactly the names of the others; of
\* several raw entries with one name the mapping holds the Variable of the
\* last one in the source.
C29_VariablesKeyedByName ==
    /\ Loaded => \A k \in DOMAIN protocol.variables :
                    k # << >> /\ protocol.variables[k].name = k
    /\ HasVarList =>
          /\ pc # "load_raised"
          /\ Loaded =>
                /\ DOMAIN protocol.variables =
                      {NameOf(VarEntries[i]) : i \in 1..Len(VarEntries)} \ {<< >>}
                /\ \A i \in 1..Len(VarEntries) :
                      (/\ NameOf(VarEntries[i]) # << >>
                       /\ \A j \in (i + 1)..Len(VarEntries) :
                             NameOf(VarEntries[j]) # NameOf(VarEntries[i])) =>
                          LET var == protocol.variables[NameOf(VarEntries[i])]
                          IN  /\ var.default = Get(VarEntries[i].d, f_default, PyNone)
                              /\ var.required = Truthy(Get(VarEntries[i].d, f_required, PyBool(TRUE)))

\* The file declares tempo with default 120, an entry without a name, then
\* tempo again with default 90: the Document holds tempo alone, default 90,
\* and the run's ask with no answer has stored 90.
C29_Witness ==
    /\ Loaded
    /\ source.data = With(RawDocument, f_variables, PyList(<<RawVariable, RawNoName, RawTempo90>>))
    /\ DOMAIN protocol.variables = {n_tempo}
    /\ protocol.variables[n_tempo].default = PyInt(90)
    /\ LastCall("ask")
    /\ Absent(Last(log).ret)
    /\ values = [k \in {n_tempo} |-> PyInt(90)]

-----------------------------------------------------------------------------
(* Runs of steps that can fail after steps that wrote to the state *)

\* The steps of these runs: an ask that can succeed, one whose required
\* Variable has no default, one without ref, one with an undeclared ref, a
\* confirm, an unknown kind, and calls that write under tempo: without a
\* call path, refused by the resolver, or reaching the operation.
FailurePool ==
    { Step(k_ask, PyStr(n_tempo), << >>, PyNone, EmptyDict),
      Step(k_ask, PyStr(n_key), << >>, PyNone, EmptyDict),
      Step(k_ask, PyNone, << >>, PyNone, EmptyDict),
      Step(k_ask, PyStr(<<"z", "z">>), << >>, PyNone, EmptyDict),
      Step(k_confirm, PyStr(n_tempo), t_hi, PyNone, EmptyDict),
      Step(k_wobble, PyStr(n_tempo), << >>, PyNone, EmptyDict),
      Step(k_call, PyStr(n_tempo), << >>, PyNone, EmptyDict),
      Step(k_call, PyStr(n_tempo), << >>, c_nodot, EmptyDict),
      Step(k_call, PyStr(n_tempo), << >>, c_mf, a_base) }

FailureProtocols == {ProtocolOf(DeclaredVars, s) : s \in StepSeqs(FailurePool, MaxSteps)}

InitFailures ==
    /\ library = NoLibrary
    /\ source = NoSource
    /\ protocol \in FailureProtocols
    /\ ui \in {"console", "scripted"}
    /\ values = EmptyDict
    /\ pc = "new"
    /\ idx = 0
    /\ result = PyNone
    /\ errors = << >>
    /\ ran = << >>
    /\ log = << >>

NextFailures ==
    \/ Start
    \/ StepAsk
    \/ StepConfirm
    \/ StepCall
    \/ StepUnknown
    \/ Return

SpecFailures == InitFailures /\ [][NextFailures]_vars

\* C30: a step that fails writes nothing: at the step where a run stops
\* with an error, whatever the error, the state stays as the steps before
\* it left it, and the steps before it are all the steps that have run.
C30_FailedStepWritesNothing ==
    [][(pc = "running" /\ pc' = "raised") =>
          /\ values' = values
          /\ ran' = Append(ran, idx)
          /\ Len(errors') = 1]_vars

\* An ask stored tempo, then a call with ref tempo reached its operation,
\* which failed: the run has stopped and tempo still holds the answer.
C30_Witness ==
    /\ pc = "raised"
    /\ Len(ran) = 2
    /\ log[1].op = "ask" /\ log[1].ret = PyStr(<<"x">>)
    /\ protocol.steps[2].kind = k_call
    /\ protocol.steps[2].ref = PyStr(n_tempo)
    /\ Last(log).op = "invoke"
    /\ Last(log).ret = Raised
    /\ values = [k \in {n_tempo} |-> PyStr(<<"x">>)]

-----------------------------------------------------------------------------
(* Runs of steps whose kinds are written in other cases and with whitespace *)

k_SAY      == PyStr(<<" ", "S", "A", "Y", " ">>)
k_Ask      == PyStr(<<"A", "s", "k">>)
k_Note     == PyStr(<<"\t", "N", "o", "t", "e", "\n">>)
k_CONFIRM  == PyStr(<<"C", "O", "N", "F", "I", "R", "M", " ">>)
k_Call     == PyStr(<<" ", "C", "a", "l", "l">>)
k_Finalize == PyStr(<<"F", "i", "n", "a", "l", "i", "z", "e">>)
k_s_ay     == PyStr(<<"s", " ", "a", "y">>)

\* The steps of these runs: one of each kind in a spelling that
\* .lower().strip() brings back to it, and two that it does not.
CasePool ==
    { Step(k_SAY, PyNone, t_hi, PyNone, EmptyDict),
      Step(k_Note, PyNone, t_hi, PyNone, EmptyDict),
      Step(k_Ask, PyStr(n_tempo), << >>, PyNone, EmptyDict),
      Step(k_CONFIRM, PyNone, t_hi, PyNone, EmptyDict),
      Step(k_Call, r_r, << >>, c_mf, a_base),
      Step(k_Finalize, PyNone, << >>, PyNone, EmptyDict),
      Step(k_s_ay, PyNone, t_hi, PyNone, EmptyDict),
      Step(k_Wobble, PyNone, t_hi, PyNone, EmptyDict) }

InitCase ==
    /\ library = NoLibrary
    /\ source = NoSource
    /\ protocol \in {ProtocolOf(DeclaredVars, q) : q \in StepSeqs(CasePool, MaxSteps)}
    /\ ui \in {"console", "scripted"}
    /\ values = EmptyDict
    /\ pc = "new"
    /\ idx = 0
    /\ result = PyNone
    /\ errors = << >>
    /\ ran = << >>
    /\ log = << >>

SpecCase == InitCase /\ [][Next]_vars

\* The first call a step of each of these spellings is to make: the call of
\* the kind it reads as, or none when it reads as no kind.
ExecutedAs(kind) ==
    CASE kind \in {k_SAY, k_Note} -> "note"
      [] kind = k_Ask             -> "ask"
      [] kind = k_CONFIRM         -> "confirm"
      [] kind = k_Call            -> "execute_call"
      [] kind = k_Finalize        -> "finalize"
      [] OTHER                    -> "none"

\* C31: step kinds are matched after lower-casing and trimming surrounding
\* whitespace: a step written " SAY ", "Ask" (and likewise for the other
\* kinds) makes the call of say, ask, ... and does not fail as unknown; a
\* step whose kind is still no kind after that fails with the unknown-kind
\* error, which carries the kind as written in the Document.
C31_KindNormalised ==
    [][Running =>
         IF ExecutedAs(CurStep.kind) # "none"
         THEN /\ Len(log') > Len(log)
              /\ log'[Len(log) + 1].op = ExecutedAs(CurStep.kind)
              /\ log'[Len(log) + 1].step = idx
              /\ \A j \in 1..Len(errors') : errors'[j].what # "unknown_kind"
         ELSE /\ pc' = "raised"
              /\ errors' = <<Err("ValueError", "unknown_kind", idx, CurStep.kind, PyNone)>>
              /\ log' = log
              /\ values' = values]_vars

\* Steps written " SAY " and "Ask" have shown the note and asked tempo, and
\* the third, written " Wobble", has failed the run with an error that
\* carries " Wobble".
C31_Witness ==
    /\ pc = "raised"
    /\ Len(protocol.steps) = 3
    /\ protocol.steps[1].kind = k_SAY
    /\ protocol.steps[2].kind = k_Ask
    /\ protocol.steps[3].kind = k_Wobble
    /\ Len(log) = 2
    /\ log[1].op = "note" /\ log[1].arg = PyStr(t_hi)
    /\ log[2].op = "ask" /\ log[2].arg = PyStr(n_tempo)
    /\ n_tempo \in DOMAIN values
    /\ errors = <<Err("ValueError", "unknown_kind", 3, k_Wobble, PyNone)>>

-----------------------------------------------------------------------------
(* start() called again on the same agent *)

\* The most calls of start() on one agent that fail.
MaxFailedRuns == 2

\* start() again, once the earlier call has returned or raised: the same
\* self.values.clear() and the loop from the first step. The steps run and
\* the calls made are those of the call of start() in progress; what the
\* earlier calls returned or raised stays with their caller.
Restart ==
    /\ pc \in {"returned", "raised"}
    /\ Len(errors) < MaxFailedRuns
    /\ values' = Cleared(values)
    /\ idx' = 1
    /\ pc' = "running"
    /\ ran' = << >>
    /\ log' = << >>
    /\ UNCHANGED <<library, source, protocol, ui, result, errors>>

t_opt == <<"$", "{", "o", "p", "t", "}">>
a_opt == [k \in {<<"b", "a", "s", "e">>} |-> PyStr(t_opt)]

\* The steps of these runs: a call whose argument reads opt and which the
\* resolver refuses once the argument is resolved, asks that store tempo
\* always and opt when the bridge answers, a confirm, a finalize and a step
\* of unknown kind.
RestartPool ==
    { Step(k_call, r_r, << >>, c_mg, a_opt),
      Step(k_ask, PyStr(n_tempo), << >>, PyNone, EmptyDict),
      Step(k_ask, PyStr(n_opt), << >>, PyNone, EmptyDict),
      Step(k_confirm, PyNone, t_hi, PyNone, EmptyDict),
      Step(k_finalize, PyNone, << >>, PyNone, EmptyDict),
      Step(k_wobble, PyNone, << >>, PyNone, EmptyDict) }

InitRestart ==
    /\ library = NoLibrary
    /\ source = NoSource
    /\ protocol \in {ProtocolOf(DeclaredVars, q) : q \in StepSeqs(RestartPool, MaxSteps)}
    /\ ui \in {"console", "scripted"}
    /\ values = EmptyDict
    /\ pc = "new"
    /\ idx = 0
    /\ result = PyNone
    /\ errors = << >>
    /\ ran = << >>
    /\ log = << >>

NextRestart ==
    \/ Start
    \/ Restart
    \/ StepAsk
    \/ StepConfirm
    \/ StepCall
    \/ StepFinalize
    \/ StepUnknown
    \/ Return

SpecRestart == InitRestart /\ [][NextRestart]_vars

\* The keys the steps of the call of start() in progress may have written so
\* far: the ref of each ask and call that has run, the ref or confirm_<i> of
\* each confirm.
KeysOfRun ==
    {CASE protocol.steps[i].kind = k_confirm /\ protocol.steps[i].ref = PyNone ->
              <<"c", "o", "n", "f", "i", "r", "m", "_">> \o IntStr(i)
       [] OTHER -> protocol.steps[i].ref.s :
        i \in {j \in 1..(idx - 1) : /\ j <= Len(protocol.steps)
                                    /\ protocol.steps[j].kind \in {k_ask, k_confirm, k_call}
                                    /\ protocol.steps[j].kind = k_confirm
                                          \/ protocol.steps[j].ref # PyNone}}

\* What ${opt} is to read as: the latest answer an ask of opt was given in
\* this call of start(), or nothing.
OptText ==
    LET given == {j \in 1..Len(log) : /\ log[j].op = "ask"
                                      /\ log[j].arg = PyStr(n_opt)
                                      /\ log[j].ret \notin {PyNone, PyStr(<< >>), Raised}}
    IN  IF given = {} THEN << >>
        ELSE StrOf(log[CHOOSE j \in given : \A k \in given : k <= j].ret)

\* C32: start() called again after a completed or a failed run begins from
\* an empty state at the first step; the state of the later run holds only
\* keys its own steps wrote, and so do the arguments it resolves, the
\* mapping it hands to finalize and the mapping it returns; the mapping
\* start() returns equals the final state and is a copy: it reads the same
\* once the next call has cleared the state and written to it.
C32_RestartFromEmpty ==
    /\ [][(pc \in {"returned", "raised"} /\ pc' = "running") =>
             values' = EmptyDict /\ idx' = 1]_vars
    /\ [] (pc # "new" => DOMAIN values \subseteq KeysOfRun)
    /\ [][(Running /\ CurStep.kind = k_call /\ CurStep.args = a_opt) =>
             log'[Len(log) + 1].arg = PyDict([k \in DOMAIN a_opt |-> PyStr(OptText)])]_vars
    /\ [][(Running /\ CurStep.kind = k_finalize) =>
             /\ Deref(Last(log').arg, values) = PyDict(values)
             /\ DOMAIN Deref(Last(log').arg, values).d \subseteq KeysOfRun]_vars
    /\ [][(pc = "running" /\ pc' = "returned") =>
             /\ Deref(result', values') = PyDict(values)
             /\ DOMAIN Deref(result', values').d \subseteq KeysOfRun]_vars
    /\ [][(result # PyNone /\ pc' # "returned") =>
             Deref(result', values') = Deref(result, values)]_vars

\* A run of [ask opt, finalize] stored the answer and returned {opt: x};
\* start() was called again, the ask was given no answer, and finalize has
\* been handed the empty mapping, the mapping returned earlier being as it was.
C32_Witness ==
    /\ pc = "running"
    /\ Len(protocol.steps) = 2
    /\ protocol.steps[1] = Step(k_ask, PyStr(n_opt), << >>, PyNone, EmptyDict)
    /\ result = PyDict([k \in {n_opt} |-> PyStr(<<"x">>)])
    /\ Len(log) = 2
    /\ log[1].op = "ask" /\ log[1].ret = PyNone
    /\ log[2].op = "finalize" /\ log[2].arg = PyDict(EmptyDict)
    /\ values = EmptyDict

====
